---- MODULE Spec2Model ----
(***************************************************************************)
(* Job assignment engine and job lifecycle of the LDN backend              *)
(* (src/app/routes/jobs.py), over the users, properties, availability      *)
(* records, jobs and assignment log it reads and writes.                   *)
(*                                                                         *)
(* Conventions                                                             *)
(*   - Python None / SQL NULL is the integer NULL, outside every domain.   *)
(*   - Coordinates are integers in units of 1e-4 degree ("ticks").         *)
(*   - Distances are integers in centimetres; scores are scaled by         *)
(*     ScoreScale so that 100 - 10 * km stays an integer.                  *)
(*   - Timestamps are ticks of the logical clock `now`; 1..MaxClock.       *)
(*   - The assignment log is the sequence of rows in insertion order.      *)
(*   - Each request is one atomic step (one request at a time), except in  *)
(*     the concurrent specification, where a request reads in one step and *)
(*     commits in a later one and `txn` holds what it read.                *)
(***************************************************************************)
EXTENDS Integers, Sequences, FiniteSets, TLC

NULL == -1000000

\* ---------------------------------------------------------------- bounds
MaxJobs == 1
MaxLog == 3
MaxClock == 3
\* The largest number of active jobs a clerk holds at the start.
MaxLoad == 21
\* The largest number of availability records held at once.
MaxRecords == 3

\* ------------------------------------------------------- static database
\* NoSuchUser is a user id of no row; UnknownSub is the identity of a caller
\* whose token is valid but who has no row in users.
NoSuchUser == 9
UnknownSub == 8

\* properties: two rows, both at (51.5, -0.12).
PropertyIds == {1, 2}
NoSuchProperty == 7
Latitude(p) == IF p = 1 THEN 515000 ELSE NULL
Longitude(p) == IF p = 1 THEN -1200 ELSE NULL
Postcode(p) == <<"S", "W", "1", "A", " ", "1", "A", "A">>

\* Calendar dates.
Today == 0
Tomorrow == 1
DayAfter == 2

VARIABLES
    users,         \* user id -> User row
    availability,  \* set of ClerkAvailability rows
    jobs,          \* sequence of Job rows; a job's id is its index
    log,           \* sequence of AssignmentLog rows, in insertion order
    now,           \* logical clock behind datetime.utcnow()
    last,          \* the last request and its HTTP status
    txn            \* the requests being served: what each has read so far

vars == <<users, availability, jobs, log, now, last, txn>>

\* ------------------------------------------------------------- helpers
Abs(x) == IF x < 0 THEN 0 - x ELSE x
Max(a, b) == IF a >= b THEN a ELSE b

\* Python truthiness of a nullable Decimal column: None and 0 are both falsy.
Truthy(x) == x # NULL /\ x # 0

CmPerTick == 1112

RECURSIVE ISqrtIn(_, _, _)
ISqrtIn(n, lo, hi) ==
    IF lo >= hi THEN lo
    ELSE LET mid == (lo + hi + 1) \div 2
         IN IF mid * mid <= n THEN ISqrtIn(n, mid, hi) ELSE ISqrtIn(n, lo, mid - 1)
ISqrt(n) == ISqrtIn(n, 0, 40000)

\* cos of a latitude given in ticks, times 1000: the series
\* 1 - x^2/2 + x^4/24 - x^6/720 with x in milliradians.
CosPermille(lat) ==
    LET x == (Abs(lat) * 1745) \div 1000000
        q == (x * x) \div 1000
    IN 1000 - q \div 2 + (q * q) \div 24000 - (((q * q) \div 1000) * q) \div 720000

\* The distance with cos(lat1) in the place of cos(lat1) * cos(lat2).
DistanceFromFirstLatitude(lat1, lon1, lat2, lon2) ==
    LET ns == CmPerTick * Abs(lat2 - lat1)
        ew == (((CmPerTick * Abs(lon2 - lon1)) \div 10) * CosPermille(lat1)) \div 100
    IN IF lon2 = lon1 \/ ew = 0 THEN ns
       ELSE IF ns = 0 THEN ew
       ELSE 100 * ISqrt((ns \div 100) * (ns \div 100) + (ew \div 100) * (ew \div 100))

\* Great-circle distance in centimetres between two points given in ticks
\* (helpers.py 12-23). For points a few tens of kilometres apart the
\* haversine formula a = sin^2(dlat/2) + cos(lat1) cos(lat2) sin^2(dlon/2),
\* d = 2 R asin(sqrt(a)) is R * sqrt(dlat^2 + cos(lat1) cos(lat2) dlon^2);
\* one tick of latitude is 6371 km * pi / 180 * 1e-4 = 11.12 m. On one
\* meridian it is exactly R * dlat.
calculate_distance(lat1, lon1, lat2, lon2) ==
    LET ns == CmPerTick * Abs(lat2 - lat1)
        cosines == ISqrt(CosPermille(lat1) * CosPermille(lat2))
        ew == (((CmPerTick * Abs(lon2 - lon1)) \div 10) * cosines) \div 100
    IN IF lon2 = lon1 \/ ew = 0 THEN ns
       ELSE IF ns = 0 THEN ew
       ELSE 100 * ISqrt((ns \div 100) * (ns \div 100) + (ew \div 100) * (ew \div 100))

\* Scores are kept times ScoreScale: 100 - 10 * km = (100 * ScoreScale - cm) / ScoreScale.
ScoreScale == 100 * 100

\* ------------------------------------------------ auto_assign_job (83-171)
ActiveStatuses == {"assigned", "on_route", "in_progress"}
Statuses == {"pending_assignment", "assigned", "on_route", "in_progress",
             "completed", "cancelled"}

JobIds(js) == 1..Len(js)

\* ClerkAvailability rows of clerk c on date d that are marked available.
AvailableRows(av, c, d) ==
    {r \in av : r.user_id = c /\ r.available_date = d /\ r.is_available}
\* ClerkAvailability rows of clerk c on date d, available or not.
DateRows(av, c, d) == {r \in av : r.user_id = c /\ r.available_date = d}

\* The pool without the filters on is_active and is_on_shift.
CandidatePoolAnyClerk(us, av, job) ==
    LET is_today == job.appointment_date = Today
        clerks == {c \in DOMAIN us : us[c].role = "clerk"}
    IN {c \in clerks :
          IF is_today
          THEN Truthy(us[c].current_lat) /\ Truthy(us[c].current_lng)
          ELSE AvailableRows(av, c, job.appointment_date) # {}}

\* The pool with the filter on is_available left out of the availability query.
CandidatePoolAnyRecord(us, av, job) ==
    LET is_today == job.appointment_date = Today
        clerks == {c \in DOMAIN us : /\ us[c].role = "clerk"
                                     /\ us[c].is_active
                                     /\ (is_today => us[c].is_on_shift)}
    IN {c \in clerks :
          IF is_today
          THEN Truthy(us[c].current_lat) /\ Truthy(us[c].current_lng)
          ELSE DateRows(av, c, job.appointment_date) # {}}

\* Lines 85-118: the clerks that reach scoring.
CandidatePool(us, av, job) ==
    LET is_today == job.appointment_date = Today
        clerks == {c \in DOMAIN us : /\ us[c].role = "clerk"
                                     /\ us[c].is_active
                                     /\ (is_today => us[c].is_on_shift)}
    IN {c \in clerks :
          IF is_today
          THEN Truthy(us[c].current_lat) /\ Truthy(us[c].current_lng)
          ELSE AvailableRows(av, c, job.appointment_date) # {}}

\* Lines 121-124: the rows a "completed jobs of the property, check_out_at
\* descending, first" query may return; PostgreSQL sorts NULL first when
\* descending, and the order among equal keys is unspecified.
PreviousJobs(js, p) ==
    LET done == {i \in JobIds(js) : js[i].property_id = p /\ js[i].status = "completed"}
        key(i) == IF js[i].check_out_at = NULL THEN MaxClock + 2 ELSE js[i].check_out_at
    IN {i \in done : \A k \in done : key(i) >= key(k)}

\* Lines 157-161: jobs the clerk currently holds.
CurrentJobs(js, c) ==
    Cardinality({i \in JobIds(js) :
                    js[i].assigned_clerk_id = c /\ js[i].status \in ActiveStatuses})

\* s[:4] of a postcode, a sequence of characters (<<>> for None or '').
Prefix4(s) == SubSeq(s, 1, IF Len(s) < 4 THEN Len(s) ELSE 4)

\* Lines 135-155: the distance (or postcode) part of the score; rows holds the
\* availability row the fallback query returned, if any.
DistanceScore(job, clerk, rows) ==
    LET p == job.property_id
    IN IF Truthy(Latitude(p)) /\ Truthy(Longitude(p))
       THEN IF Truthy(clerk.current_lat) /\ Truthy(clerk.current_lng)
            THEN Max(0, 100 * ScoreScale
                        - calculate_distance(Latitude(p), Longitude(p),
                                             clerk.current_lat, clerk.current_lng))
            ELSE IF job.appointment_date # Today
                      /\ \E r \in rows : r.postcode # <<>>
                                          /\ Prefix4(r.postcode) = Prefix4(Postcode(p))
                 THEN 30 * ScoreScale
                 ELSE 0
       ELSE 0

\* Lines 131-133: the bonus for the clerk of the previous job (prev, or NULL).
ContinuityScore(js, c, prev) ==
    IF prev # NULL /\ js[prev].assigned_clerk_id = c THEN 50 * ScoreScale ELSE 0

\* The workload part without its floor at 0.
WorkloadScoreUnfloored(js, c) == (20 - CurrentJobs(js, c)) * ScoreScale
\* Lines 157-162: the workload part.
WorkloadScore(js, c) == Max(0, 20 - CurrentJobs(js, c)) * ScoreScale

\* Lines 128-164: the score of clerk c given the previous job (or NULL).
Score(us, js, job, c, prev, rows) ==
    ContinuityScore(js, c, prev) + DistanceScore(job, us[c], rows) + WorkloadScore(js, c)

\* Line 95: the orders in which query.all(), which has no ORDER BY, may list
\* the rows S.
Orders(S) ==
    {o \in [1..Cardinality(S) -> S] : \A a, b \in DOMAIN o : a # b => o[a] # o[b]}

\* The list sorted by ascending score.
RECURSIVE SortByScoreAsc(_)
SortByScoreAsc(scores) ==
    IF scores = <<>> THEN <<>>
    ELSE LET e == scores[Len(scores)]
             sorted == SortByScoreAsc(SubSeq(scores, 1, Len(scores) - 1))
             k == Cardinality({i \in 1..Len(sorted) : sorted[i][2] <= e[2]})
         IN SubSeq(sorted, 1, k) \o <<e>> \o SubSeq(sorted, k + 1, Len(sorted))

\* Line 170: clerk_scores.sort(key=score, reverse=True) on a list of
\* <<clerk id, score>>: descending by score, and stable, so entries of equal
\* score keep the order the list had.
RECURSIVE SortByScoreDesc(_)
SortByScoreDesc(scores) ==
    IF scores = <<>> THEN <<>>
    ELSE LET e == scores[Len(scores)]
             sorted == SortByScoreDesc(SubSeq(scores, 1, Len(scores) - 1))
             k == Cardinality({i \in 1..Len(sorted) : sorted[i][2] >= e[2]})
         IN SubSeq(sorted, 1, k) \o <<e>> \o SubSeq(sorted, k + 1, Len(sorted))

\* The assignment that never finds a clerk.
AutoAssignNobody(us, av, js, job) == {NULL}

\* The clerk ids auto_assign_job may return for the job, NULL for None: the
\* first of the sorted list, for each order in which the clerk query may list
\* the candidates and each row the previous-job query may return.
AutoAssignResults(us, av, js, job) ==
    LET pool == CandidatePool(us, av, job)
        prevs == PreviousJobs(js, job.property_id)
        sc(c, prev) == Score(us, js, job, c, prev, DateRows(av, c, job.appointment_date))
        clerk_scores(o, prev) == [i \in 1..Len(o) |-> <<o[i], sc(o[i], prev)>>]
    IN IF pool = {} THEN {NULL}
       ELSE {SortByScoreDesc(clerk_scores(o, prev))[1][1] :
               o \in Orders(pool), prev \in (IF prevs = {} THEN {NULL} ELSE prevs)}

\* ------------------------------------------------------------ identity
\* get_current_user (auth.py 148-167): the role is the caller's row's role;
\* a caller without a row, whose token carries no custom:role claim, is given
\* the role 'clerk'.
Subs == DOMAIN users \cup {UnknownSub}
CallerRole(sub) == IF sub \in DOMAIN users THEN users[sub].role ELSE "clerk"

\* ------------------------------------------------------------- records
NoReason == "<absent>"

NewJob(p, d) ==
    [property_id |-> p, appointment_date |-> d,
     status |-> "pending_assignment", assigned_clerk_id |-> NULL,
     on_route_at |-> NULL,
     check_in_at |-> NULL, check_in_lat |-> NULL, check_in_lng |-> NULL,
     location_warning_flag |-> FALSE,
     handover_data |-> {},
     check_out_at |-> NULL, check_out_lat |-> NULL, check_out_lng |-> NULL]

UserRow(role, active, shift, lat, lng) ==
    [role |-> role, is_active |-> active, is_on_shift |-> shift,
     current_lat |-> lat, current_lng |-> lng]

LogEntry(j, prev, new, action, by, reason) ==
    [job_id |-> j, previous_clerk_id |-> prev, new_clerk_id |-> new,
     action_type |-> action, triggered_by_user_id |-> by, reason |-> reason]

Resp(op, j, sub, code) == [op |-> op, job |-> j, caller |-> sub, code |-> code]

\* The requests that may be served at the same time, and the state of one
\* that is not being served.
Requests == {1, 2}
Idle == [pc |-> "idle"]

\* A request that ends without a commit: nothing but the response changes.
Refuse(op, j, sub, code) ==
    /\ last' = Resp(op, j, sub, code)
    /\ UNCHANGED <<users, availability, jobs, log, now, txn>>

\* ----------------------------------------------------------------- Init
\* A job cancelled through the administrative update endpoint, which is the
\* only way the status cancelled arises.
CancelledJob == [NewJob(1, Today) EXCEPT !.status = "cancelled"]

Init ==
    /\ users = (1 :> UserRow("admin", TRUE, FALSE, NULL, NULL))
                @@ (2 :> UserRow("clerk", TRUE, FALSE, 515180, -1200))
                @@ (3 :> UserRow("clerk", TRUE, FALSE, 515719, -1200))
    /\ availability =
         {[user_id |-> 3, available_date |-> Tomorrow, is_available |-> TRUE,
           postcode |-> <<"S", "W", "1", "A", " ", "2", "B", "B">>],
          [user_id |-> 2, available_date |-> Tomorrow, is_available |-> FALSE,
           postcode |-> <<>>]}
    /\ jobs \in {<<>>, <<CancelledJob>>}
    /\ log = <<>>
    /\ now = 0
    /\ last = Resp("none", NULL, NULL, 0)
    /\ txn = [t \in Requests |-> Idle]

\* ------------------------------------------------- start_job (310-319)
StartJob(sub, j) ==
    IF CallerRole(sub) # "clerk" THEN Refuse("start", j, sub, 403)
    ELSE IF j \notin JobIds(jobs) THEN Refuse("start", j, sub, 404)
    ELSE /\ now < MaxClock
         /\ now' = now + 1
         /\ jobs' = [jobs EXCEPT ![j].status = "on_route", ![j].on_route_at = now + 1]
         /\ last' = Resp("start", j, sub, 200)
         /\ UNCHANGED <<users, availability, log, txn>>

\* -------------------------------------------------- check_in (321-347)
\* The position the lifecycle specification sends: 156 m from the property.
FarPoint == <<515014, -1200>>

\* Lines 334-344: the warning flag after a check-in at (lat, lng).
GeofenceFlag(job, lat, lng) ==
    LET p == job.property_id
    IN IF Truthy(Latitude(p)) /\ Truthy(Longitude(p)) /\ Truthy(lat) /\ Truthy(lng)
       THEN calculate_distance(Latitude(p), Longitude(p), lat, lng) > ScoreScale
       ELSE job.location_warning_flag

CheckIn(sub, j, lat, lng) ==
    IF CallerRole(sub) # "clerk" THEN Refuse("check_in", j, sub, 403)
    ELSE IF j \notin JobIds(jobs) THEN Refuse("check_in", j, sub, 404)
    ELSE /\ now < MaxClock
         /\ now' = now + 1
         /\ jobs' = [jobs EXCEPT ![j].check_in_at = now + 1,
                                 ![j].check_in_lat = lat,
                                 ![j].check_in_lng = lng,
                                 ![j].status = "in_progress",
                                 ![j].location_warning_flag = GeofenceFlag(jobs[j], lat, lng)]
         /\ last' = Resp("check_in", j, sub, 200)
         /\ UNCHANGED <<users, availability, log, txn>>

\* ---------------------------------------------- complete_job (399-419)
\* helpers.py 45-69: the frontend keys of the handover map become database
\* keys; the map is modelled by its key set.
camel_to_snake(k) ==
    IF k = "notes" THEN "notes"
    ELSE IF k = "meterNotes" THEN "meter_notes"
    ELSE k
convert_handover_camel_to_snake(data) ==
    {IF k = "gasReading" THEN "gas_reading"
     ELSE IF k = "electricReading" THEN "electric_reading"
     ELSE IF k = "keyReturn" THEN "key_return_info"
     ELSE IF k = "proofPhotoUrl" THEN "proof_photo_url"
     ELSE camel_to_snake(k) : k \in data}

HandoverInput == {"gasReading", "keyReturn", "meterNotes"}

\* The completion that also releases the job from its clerk.
CompleteJobReleasesClerk(sub, j, lat, lng, handover) ==
    IF CallerRole(sub) # "clerk" THEN Refuse("complete", j, sub, 403)
    ELSE IF j \notin JobIds(jobs) THEN Refuse("complete", j, sub, 404)
    ELSE /\ now < MaxClock
         /\ now' = now + 1
         /\ jobs' = [jobs EXCEPT ![j].status = "completed",
                                 ![j].assigned_clerk_id = NULL,
                                 ![j].check_out_at = now + 1,
                                 ![j].check_out_lat = lat,
                                 ![j].check_out_lng = lng,
                                 ![j].handover_data =
                                     IF handover # {}
                                     THEN convert_handover_camel_to_snake(handover)
                                     ELSE handover]
         /\ last' = Resp("complete", j, sub, 200)
         /\ UNCHANGED <<users, availability, log, txn>>

CompleteJob(sub, j, lat, lng, handover) ==
    IF CallerRole(sub) # "clerk" THEN Refuse("complete", j, sub, 403)
    ELSE IF j \notin JobIds(jobs) THEN Refuse("complete", j, sub, 404)
    ELSE /\ now < MaxClock
         /\ now' = now + 1
         /\ jobs' = [jobs EXCEPT ![j].status = "completed",
                                 ![j].check_out_at = now + 1,
                                 ![j].check_out_lat = lat,
                                 ![j].check_out_lng = lng,
                                 ![j].handover_data =
                                     IF handover # {}
                                     THEN convert_handover_camel_to_snake(handover)
                                     ELSE handover]
         /\ last' = Resp("complete", j, sub, 200)
         /\ UNCHANGED <<users, availability, log, txn>>

\* ------------------------------------------------ update_job (260-282)
\* PUT /api/jobs/<id>: any authenticated caller may send it. The body, data,
\* is a record holding a status, an assigned_clerk_id, or both; each field
\* present is written as given (275-279). jobs.assigned_clerk_id references
\* users.id, so the commit of an id of no row raises and nothing is written.
Supplied(data, field, current) == IF field \in DOMAIN data THEN data[field] ELSE current

\* The update that records a change of clerk in the assignment log.
UpdateJobLogged(sub, j, data) ==
    IF j \notin JobIds(jobs) THEN Refuse("update", j, sub, 404)
    ELSE IF Supplied(data, "assigned_clerk_id", NULL) \notin DOMAIN users \cup {NULL}
         THEN Refuse("update", j, sub, 500)
    ELSE /\ jobs' = [jobs EXCEPT
                       ![j].status = Supplied(data, "status", @),
                       ![j].assigned_clerk_id = Supplied(data, "assigned_clerk_id", @)]
         /\ log' = IF jobs'[j].assigned_clerk_id # jobs[j].assigned_clerk_id
                   THEN Append(log, LogEntry(j, jobs[j].assigned_clerk_id,
                                             jobs'[j].assigned_clerk_id,
                                             "MANUAL_OVERRIDE", NULL, "Job updated"))
                   ELSE log
         /\ Len(log') <= MaxLog
         /\ last' = Resp("update", j, sub, 200)
         /\ UNCHANGED <<users, availability, now, txn>>

UpdateJob(sub, j, data) ==
    IF j \notin JobIds(jobs) THEN Refuse("update", j, sub, 404)
    ELSE IF Supplied(data, "assigned_clerk_id", NULL) \notin DOMAIN users \cup {NULL}
         THEN Refuse("update", j, sub, 500)
    ELSE /\ jobs' = [jobs EXCEPT
                       ![j].status = Supplied(data, "status", @),
                       ![j].assigned_clerk_id = Supplied(data, "assigned_clerk_id", @)]
         /\ last' = Resp("update", j, sub, 200)
         /\ UNCHANGED <<users, availability, log, now, txn>>

\* ------------------------------------------------ assign_job (284-308)
\* The manual assignment that logs no previous clerk.
AssignJobForgetsPrevious(sub, j, clerk_id, reason) ==
    IF CallerRole(sub) # "admin" THEN Refuse("assign", j, sub, 403)
    ELSE IF j \notin JobIds(jobs) THEN Refuse("assign", j, sub, 404)
    ELSE IF clerk_id \notin DOMAIN users \cup {NULL} THEN Refuse("assign", j, sub, 500)
    ELSE /\ Len(log) < MaxLog
         /\ jobs' = [jobs EXCEPT ![j].assigned_clerk_id = clerk_id,
                                 ![j].status = "assigned"]
         /\ log' = Append(log, LogEntry(j, NULL, clerk_id, "MANUAL_OVERRIDE", NULL,
                                        "Admin manual assignment"))
         /\ last' = Resp("assign", j, sub, 200)
         /\ UNCHANGED <<users, availability, now, txn>>

AssignJob(sub, j, clerk_id, reason) ==
    IF CallerRole(sub) # "admin" THEN Refuse("assign", j, sub, 403)
    ELSE IF j \notin JobIds(jobs) THEN Refuse("assign", j, sub, 404)
    \* jobs.assigned_clerk_id and assignment_logs.new_clerk_id reference
    \* users.id: the commit of an id of no row raises and nothing is written.
    ELSE IF clerk_id \notin DOMAIN users \cup {NULL} THEN Refuse("assign", j, sub, 500)
    ELSE /\ Len(log) < MaxLog
         /\ jobs' = [jobs EXCEPT ![j].assigned_clerk_id = clerk_id,
                                 ![j].status = "assigned"]
         /\ log' = Append(log, LogEntry(j, jobs[j].assigned_clerk_id, clerk_id,
                                        "MANUAL_OVERRIDE", NULL,
                                        IF reason = NoReason
                                        THEN "Admin manual assignment" ELSE reason))
         /\ last' = Resp("assign", j, sub, 200)
         /\ UNCHANGED <<users, availability, now, txn>>

\* ------------------------------------------------ reject_job (349-397)
\* The reassignment logged without the clerk it chose.
ReassignEntryNamesNobody(j, clerk) ==
    LogEntry(j, NULL, NULL, "AUTO_ASSIGN", NULL, "Auto-reassigned after rejection")
\* The rejection logged without the clerk who triggered it.
RejectionEntryUnattributed(j, clerk, by) ==
    LogEntry(j, clerk, NULL, "REJECTION", NULL, "Clerk rejected assignment")
RejectionEntry(j, clerk, by) ==
    LogEntry(j, clerk, NULL, "REJECTION", by, "Clerk rejected assignment")
ReassignEntry(j, clerk) ==
    LogEntry(j, NULL, clerk, "AUTO_ASSIGN", NULL, "Auto-reassigned after rejection")

\* The rejection whose reassignment never returns the job to the rejecting clerk.
ApplyRejectExcludesRejecter(sub, j) ==
    LET previous_clerk_id == jobs[j].assigned_clerk_id
        unassigned == [jobs EXCEPT ![j].assigned_clerk_id = NULL,
                                   ![j].status = "pending_assignment"]
        results == AutoAssignResults(users, availability, unassigned, unassigned[j])
        others == IF results \ {previous_clerk_id} = {} THEN {NULL}
                  ELSE results \ {previous_clerk_id}
    IN \E new_clerk_id \in others :
         /\ IF new_clerk_id # NULL
            THEN /\ jobs' = [unassigned EXCEPT ![j].assigned_clerk_id = new_clerk_id,
                                               ![j].status = "assigned"]
                 /\ log' = log \o <<RejectionEntry(j, previous_clerk_id, sub),
                                    ReassignEntry(j, new_clerk_id)>>
            ELSE /\ jobs' = unassigned
                 /\ log' = Append(log, RejectionEntry(j, previous_clerk_id, sub))
         /\ Len(log') <= MaxLog
         /\ last' = Resp("reject", j, sub, 200)
         /\ UNCHANGED <<users, availability, now, txn>>

\* The reassignment that sets the new clerk but leaves the status pending.
ApplyRejectStaysPending(sub, j) ==
    LET previous_clerk_id == jobs[j].assigned_clerk_id
        unassigned == [jobs EXCEPT ![j].assigned_clerk_id = NULL,
                                   ![j].status = "pending_assignment"]
    IN \E new_clerk_id \in AutoAssignResults(users, availability, unassigned,
                                             unassigned[j]) :
         /\ IF new_clerk_id # NULL
            THEN /\ jobs' = [unassigned EXCEPT ![j].assigned_clerk_id = new_clerk_id]
                 /\ log' = log \o <<RejectionEntry(j, previous_clerk_id, sub),
                                    ReassignEntry(j, new_clerk_id)>>
            ELSE /\ jobs' = unassigned
                 /\ log' = Append(log, RejectionEntry(j, previous_clerk_id, sub))
         /\ Len(log') <= MaxLog
         /\ last' = Resp("reject", j, sub, 200)
         /\ UNCHANGED <<users, availability, now, txn>>

\* Lines 362-397: the job is unassigned and the rejection logged, then the
\* job is offered to auto_assign_job. The unassigned job is flushed before
\* auto_assign_job queries, so the scoring sees it as pending.
ApplyReject(sub, j) ==
    LET previous_clerk_id == jobs[j].assigned_clerk_id
        unassigned == [jobs EXCEPT ![j].assigned_clerk_id = NULL,
                                   ![j].status = "pending_assignment"]
    IN \E new_clerk_id \in AutoAssignResults(users, availability, unassigned,
                                             unassigned[j]) :
         /\ IF new_clerk_id # NULL
            THEN /\ jobs' = [unassigned EXCEPT ![j].assigned_clerk_id = new_clerk_id,
                                               ![j].status = "assigned"]
                 /\ log' = log \o <<RejectionEntry(j, previous_clerk_id, sub),
                                    ReassignEntry(j, new_clerk_id)>>
            ELSE /\ jobs' = unassigned
                 /\ log' = Append(log, RejectionEntry(j, previous_clerk_id, sub))
         /\ Len(log') <= MaxLog
         /\ last' = Resp("reject", j, sub, 200)
         /\ UNCHANGED <<users, availability, now, txn>>

\* The rejection without the check that the caller holds the job.
RejectJobAnyClerk(sub, j) ==
    IF CallerRole(sub) # "clerk" THEN Refuse("reject", j, sub, 403)
    ELSE IF j \notin JobIds(jobs) THEN Refuse("reject", j, sub, 404)
    ELSE ApplyReject(sub, j)

RejectJob(sub, j) ==
    IF CallerRole(sub) # "clerk" THEN Refuse("reject", j, sub, 403)
    ELSE IF j \notin JobIds(jobs) THEN Refuse("reject", j, sub, 404)
    ELSE IF sub \notin DOMAIN users \/ jobs[j].assigned_clerk_id # sub
         THEN Refuse("reject", j, sub, 403)
    ELSE ApplyReject(sub, j)

\* ------------------------------------------------ create_job (173-258)
\* The clerk check without the filters on role and is_active.
ValidClerkAnyUser(us, clerk_id) == clerk_id \in DOMAIN us
\* Line 236: the users row with this id, role clerk and is_active, exists.
ValidClerk(us, clerk_id) ==
    /\ clerk_id \in DOMAIN us
    /\ us[clerk_id].role = "clerk"
    /\ us[clerk_id].is_active

CreateJob(sub, p, d, assignment_type, clerk_id, reason) ==
    IF CallerRole(sub) \notin {"admin", "agent"} THEN Refuse("create", NULL, sub, 403)
    ELSE IF p \notin PropertyIds THEN Refuse("create", NULL, sub, 404)
    ELSE LET id == Len(jobs) + 1
             job == NewJob(p, d)
             flushed == Append(jobs, job)
         IN /\ Len(jobs) < MaxJobs
            /\ IF assignment_type = "auto"
               THEN \E winner \in AutoAssignResults(users, availability, flushed, job) :
                      /\ IF winner # NULL
                         THEN /\ jobs' = [flushed EXCEPT ![id].assigned_clerk_id = winner,
                                                         ![id].status = "assigned"]
                              /\ log' = Append(log,
                                   LogEntry(id, job.assigned_clerk_id, winner, "AUTO_ASSIGN", NULL,
                                     "Auto-assigned by system based on availability and location"))
                         ELSE /\ jobs' = flushed
                              /\ log' = log
                      /\ last' = Resp("create", id, sub, 201)
               ELSE IF assignment_type = "manual" /\ clerk_id # NULL
               THEN IF ~ValidClerk(users, clerk_id)
                    THEN /\ jobs' = jobs
                         /\ log' = log
                         /\ last' = Resp("create", NULL, sub, 400)
                    ELSE /\ jobs' = [flushed EXCEPT ![id].assigned_clerk_id = clerk_id,
                                                    ![id].status = "assigned"]
                         /\ log' = Append(log,
                              LogEntry(id, job.assigned_clerk_id, clerk_id, "MANUAL_OVERRIDE", NULL,
                                IF reason = NoReason
                                THEN "Manual assignment during job creation" ELSE reason))
                         /\ last' = Resp("create", id, sub, 201)
               ELSE /\ jobs' = flushed
                    /\ log' = log
                    /\ last' = Resp("create", id, sub, 201)
            /\ Len(log') <= MaxLog
            /\ UNCHANGED <<users, availability, now, txn>>

\* ------------------------------------------ a call of auto_assign_job
\* auto_assign_job (83-171) called, as create_job calls it, for a job of
\* property 1 on date d that is flushed but not committed: it queries users,
\* availability records and jobs and returns a clerk id or None.
AutoAssignCall(d) ==
    /\ \E w \in AutoAssignResults(users, availability, Append(jobs, NewJob(1, d)),
                                    NewJob(1, d)) :
          last' = [op |-> "auto_assign", job |-> NULL, caller |-> NULL, code |-> 0,
                   date |-> d, result |-> w]
    /\ UNCHANGED <<users, availability, jobs, log, now, txn>>

\* ------------------------------------------- delete_user (users.py 181-189)
\* The user row is deleted. The session first clears the foreign key of the
\* jobs it loads through User.assigned_jobs (user.py 42, no delete cascade);
\* the availability records go with the user (user.py 45); the database sets
\* to NULL every assignment_logs column that references the user
\* (assignment_log.py 14, 15, 19: ON DELETE SET NULL).
SetNull(x, u) == IF x = u THEN NULL ELSE x
DeleteUser(sub, u) ==
    IF CallerRole(sub) # "admin" THEN Refuse("delete_user", NULL, sub, 403)
    ELSE IF u \notin DOMAIN users THEN Refuse("delete_user", NULL, sub, 404)
    ELSE /\ users' = [x \in DOMAIN users \ {u} |-> users[x]]
         /\ availability' = {r \in availability : r.user_id # u}
         /\ jobs' = [i \in JobIds(jobs) |->
                       [jobs[i] EXCEPT !.assigned_clerk_id = SetNull(@, u)]]
         /\ log' = [i \in 1..Len(log) |->
                      [log[i] EXCEPT !.previous_clerk_id = SetNull(@, u),
                                     !.new_clerk_id = SetNull(@, u),
                                     !.triggered_by_user_id = SetNull(@, u)]]
         /\ last' = Resp("delete_user", NULL, sub, 200)
         /\ UNCHANGED <<now, txn>>

\* ------------------------------------------------- persistence failures
\* Each handler writes through one session and commits once, as its last
\* statement (jobs.py 256, 306, 396); the flush in create_job (212) and the
\* flush before the queries of auto_assign_job send statements inside that
\* transaction. A statement or the commit that raises ends the request with
\* 500 and the transaction is rolled back, whatever it had written (the job
\* insert or update, the log insert), so each failure point has one outcome.

\* The failed assignment whose job update stays in the database.
AssignJobFailsKeepsJob(sub, j, clerk_id) ==
    /\ CallerRole(sub) = "admin"
    /\ j \in JobIds(jobs)
    /\ jobs' = [jobs EXCEPT ![j].assigned_clerk_id = clerk_id,
                            ![j].status = "assigned"]
    /\ last' = Resp("assign", j, sub, 500)
    /\ UNCHANGED <<users, availability, log, now, txn>>

AssignJobFails(sub, j, clerk_id) ==
    /\ CallerRole(sub) = "admin"
    /\ j \in JobIds(jobs)
    /\ Refuse("assign", j, sub, 500)

RejectJobFails(sub, j) ==
    /\ CallerRole(sub) = "clerk"
    /\ j \in JobIds(jobs)
    /\ sub \in DOMAIN users /\ jobs[j].assigned_clerk_id = sub
    /\ Refuse("reject", j, sub, 500)

CreateJobFails(sub, p, d, assignment_type, clerk_id) ==
    /\ CallerRole(sub) \in {"admin", "agent"}
    /\ p \in PropertyIds
    /\ Refuse("create", NULL, sub, 500)

\* ------------------------------- availability routes (availability.py)
\* In the specification of these routes a record carries its primary key:
\* [id, user_id, available_date, is_available, postcode]. An item of a
\* request body is a record without id.
AvailabilityRecord(id, item) ==
    [id |-> id, user_id |-> item.user_id, available_date |-> item.available_date,
     is_available |-> item.is_available, postcode |-> item.postcode]
\* A primary key no stored record has (uuid.uuid4, models/availability.py 10).
FreshId(av) == CHOOSE i \in 1..(MaxRecords + 2) : \A r \in av : r.id # i

\* A table without the unique constraint.
UserDateUnconstrained(av) == TRUE
\* models/availability.py 35: UniqueConstraint('user_id', 'available_date').
UserDateUnique(av) ==
    \A r1 \in av, r2 \in av :
        (r1.user_id = r2.user_id /\ r1.available_date = r2.available_date)
        => r1.id = r2.id
\* The flush and commit of the session succeed: the unique constraint and
\* the foreign key on user_id (models/availability.py 11) hold.
Committable(av) ==
    /\ UserDateUnique(av)
    /\ \A r \in av : r.user_id \in DOMAIN users

\* The end of a request of these routes: commit, or an IntegrityError that
\* no handler catches, which leaves the table as it was.
CommitAvailability(op, sub, av, code) ==
    IF Committable(av)
    THEN /\ availability' = av
         /\ last' = Resp(op, NULL, sub, code)
         /\ UNCHANGED <<users, jobs, log, now, txn>>
    ELSE Refuse(op, NULL, sub, 500)

\* The record `.first()` returns for (user, date), or none.
Existing(av, u, d) == {r \in av : r.user_id = u /\ r.available_date = d}

\* Lines 145-173 and 201-228: update the existing record of (user, date) or
\* add a new one. Each item's query flushes the records added before it.
Upsert(av, item) ==
    IF Existing(av, item.user_id, item.available_date) # {}
    THEN LET e == CHOOSE r \in Existing(av, item.user_id, item.available_date) : TRUE
         IN (av \ {e}) \cup {[e EXCEPT !.is_available = item.is_available,
                                       !.postcode = item.postcode]}
    ELSE av \cup {AvailabilityRecord(FreshId(av), item)}

\* Lines 139-176: the body is a list of items.
RECURSIVE UpsertList(_, _)
UpsertList(av, items) ==
    IF items = <<>> THEN av
    ELSE UpsertList(Upsert(av, Head(items)), Tail(items))

\* Lines 185-228: the body maps date strings to entries; an entry that is
\* not available deletes the record of its date, the others are upserted
\* as available. Two date strings may denote one calendar date.
RECURSIVE UpsertDict(_, _, _)
UpsertDict(av, user_id, entries) ==
    IF entries = <<>> THEN av
    ELSE LET e == Head(entries)
             existing == Existing(av, user_id, e.available_date)
             next == IF ~e.is_available
                     THEN IF existing # {}
                          THEN av \ {CHOOSE r \in existing : TRUE}
                          ELSE av
                     ELSE Upsert(av, [user_id |-> user_id,
                                      available_date |-> e.available_date,
                                      is_available |-> TRUE, postcode |-> e.postcode])
         IN UpsertDict(next, user_id, Tail(entries))

\* create_availability (73-252) with a single record, a list, or a map.
CreateAvailability(sub, item) ==
    IF CallerRole(sub) # "clerk" THEN Refuse("availability_create", NULL, sub, 403)
    ELSE /\ Cardinality(availability) < MaxRecords
         /\ CommitAvailability("availability_create", sub,
               availability \cup {AvailabilityRecord(FreshId(availability), item)}, 201)

CreateAvailabilityList(sub, items) ==
    IF CallerRole(sub) # "clerk" THEN Refuse("availability_list", NULL, sub, 403)
    ELSE /\ Cardinality(availability) + Len(items) <= MaxRecords
         /\ CommitAvailability("availability_list", sub,
                               UpsertList(availability, items), 201)

CreateAvailabilityDict(sub, user_id, entries) ==
    IF CallerRole(sub) # "clerk" THEN Refuse("availability_dict", NULL, sub, 403)
    ELSE IF user_id = NULL THEN Refuse("availability_dict", NULL, sub, 400)
    ELSE /\ Cardinality(availability) + Len(entries) <= MaxRecords
         /\ CommitAvailability("availability_dict", sub,
                               UpsertDict(availability, user_id, entries), 201)

\* update_availability (254-325): the body may hold a new date (NULL for a
\* body without the key) and a new is_available (given as a set, empty for
\* a body without the key).
UpdateAvailability(sub, id, date, available) ==
    IF CallerRole(sub) # "clerk" THEN Refuse("availability_update", NULL, sub, 403)
    ELSE IF \A r \in availability : r.id # id
         THEN Refuse("availability_update", NULL, sub, 404)
    ELSE LET old == CHOOSE r \in availability : r.id = id
             new == [old EXCEPT
                       !.available_date = IF date = NULL THEN @ ELSE date,
                       !.is_available = IF available = {} THEN @
                                        ELSE CHOOSE a \in available : TRUE]
         IN CommitAvailability("availability_update", sub,
                               (availability \ {old}) \cup {new}, 200)

\* delete_availability (327-367).
DeleteAvailability(sub, id) ==
    IF CallerRole(sub) # "clerk" THEN Refuse("availability_delete", NULL, sub, 403)
    ELSE IF \A r \in availability : r.id # id
         THEN Refuse("availability_delete", NULL, sub, 404)
    ELSE /\ availability' = {r \in availability : r.id # id}
         /\ last' = Resp("availability_delete", NULL, sub, 200)
         /\ UNCHANGED <<users, jobs, log, now, txn>>

\* ------------------------------------------------- concurrent requests
\* Two requests are served at once, each with its own session and its own
\* transaction (PostgreSQL, READ COMMITTED; no handler locks a row or checks
\* a version). A request loads the job, then later flushes and commits. The
\* session's UPDATE sets the columns whose value the handler changed from
\* the one it loaded, and leaves the others as the row has them by then.
Written(seen, new, current) == IF new # seen THEN new ELSE current

\* assign_job, lines 289-293: the job is loaded and its clerk remembered.
AssignJobRead(t, sub, j, clerk_id) ==
    /\ txn[t].pc = "idle"
    /\ IF CallerRole(sub) # "admin" THEN Refuse("assign", j, sub, 403)
       ELSE IF j \notin JobIds(jobs) THEN Refuse("assign", j, sub, 404)
       ELSE /\ txn' = [txn EXCEPT ![t] = [pc |-> "read", op |-> "assign", job |-> j,
                                          caller |-> sub, clerk_id |-> clerk_id,
                                          seen |-> jobs[j]]]
            /\ UNCHANGED <<users, availability, jobs, log, now, last>>

\* assign_job, lines 294-308: the writes and the commit.
AssignJobCommit(t) ==
    /\ txn[t].pc = "read" /\ txn[t].op = "assign"
    /\ LET j == txn[t].job
           seen == txn[t].seen
           clerk_id == txn[t].clerk_id
       IN IF clerk_id \notin DOMAIN users \cup {NULL}
          THEN /\ last' = Resp("assign", j, txn[t].caller, 500)
               /\ UNCHANGED <<jobs, log>>
          ELSE /\ Len(log) < MaxLog
               /\ jobs' = [jobs EXCEPT
                             ![j].assigned_clerk_id =
                                 Written(seen.assigned_clerk_id, clerk_id, @),
                             ![j].status = Written(seen.status, "assigned", @)]
               /\ log' = Append(log, LogEntry(j, seen.assigned_clerk_id, clerk_id,
                                              "MANUAL_OVERRIDE", NULL,
                                              "Admin manual assignment"))
               /\ last' = Resp("assign", j, txn[t].caller, 200)
    /\ txn' = [txn EXCEPT ![t] = Idle]
    /\ UNCHANGED <<users, availability, now>>

\* reject_job, lines 354-362: the job is loaded and the caller checked.
RejectJobRead(t, sub, j) ==
    /\ txn[t].pc = "idle"
    /\ IF CallerRole(sub) # "clerk" THEN Refuse("reject", j, sub, 403)
       ELSE IF j \notin JobIds(jobs) THEN Refuse("reject", j, sub, 404)
       ELSE IF sub \notin DOMAIN users \/ jobs[j].assigned_clerk_id # sub
            THEN Refuse("reject", j, sub, 403)
       ELSE /\ txn' = [txn EXCEPT ![t] = [pc |-> "read", op |-> "reject", job |-> j,
                                          caller |-> sub, clerk_id |-> NULL,
                                          seen |-> jobs[j]]]
            /\ UNCHANGED <<users, availability, jobs, log, now, last>>

\* reject_job, lines 364-397: the unassignment and the REJECTION entry are
\* flushed, auto_assign_job queries the database as it is by then, and the
\* request commits.
RejectJobCommit(t) ==
    /\ txn[t].pc = "read" /\ txn[t].op = "reject"
    /\ LET j == txn[t].job
           seen == txn[t].seen
           sub == txn[t].caller
           flushed == [jobs EXCEPT
                         ![j].assigned_clerk_id = Written(seen.assigned_clerk_id, NULL, @),
                         ![j].status = Written(seen.status, "pending_assignment", @)]
           job == [seen EXCEPT !.assigned_clerk_id = NULL,
                               !.status = "pending_assignment"]
       IN \E new_clerk_id \in AutoAssignResults(users, availability, flushed, job) :
            /\ IF new_clerk_id # NULL
               THEN /\ jobs' = [flushed EXCEPT ![j].assigned_clerk_id = new_clerk_id,
                                                  ![j].status = "assigned"]
                    /\ log' = log \o <<RejectionEntry(j, seen.assigned_clerk_id, sub),
                                       ReassignEntry(j, new_clerk_id)>>
               ELSE /\ jobs' = flushed
                    /\ log' = Append(log, RejectionEntry(j, seen.assigned_clerk_id, sub))
            /\ Len(log') <= MaxLog
            /\ last' = Resp("reject", j, sub, 200)
    /\ txn' = [txn EXCEPT ![t] = Idle]
    /\ UNCHANGED <<users, availability, now>>

\* ------------------------------------------------------- specification
\* The requests of the lifecycle specification. User 1 is the admin, users 2
\* and 3 are clerks. Every clerk passes the role check of start, check-in and
\* complete, so one clerk and one non-clerk call them. Manual assignment is
\* asked for no clerk, an id of no row, the admin and each clerk.
ClerkCallers == {1, 2}
AssignClerkInputs == {NULL, NoSuchUser, 1, 2, 3}
\* <<caller, clerk_id>> of the assign requests: the admin with each clerk id,
\* and a clerk, who is refused.
AssignRequests == {<<1, c>> : c \in AssignClerkInputs} \cup {<<3, NULL>>}
\* <<caller, property, date, assignment_type, clerk_id>> of the create
\* requests: the admin creating with automatic or manual assignment, a
\* clerk, who is refused, and a property of no row.
CreateRequests ==
    {<<1, 1, d, "auto", NULL>> : d \in {Today, Tomorrow}}
    \cup {<<1, 1, d, "manual", c>> : d \in {Today, Tomorrow}, c \in {NULL, NoSuchUser, 1, 3}}
    \cup {<<3, 1, Today, "manual", NULL>>, <<1, NoSuchProperty, Today, "manual", NULL>>}

Next ==
    \/ \E r \in CreateRequests : CreateJob(r[1], r[2], r[3], r[4], r[5], NoReason)
    \/ \E r \in AssignRequests, j \in 1..MaxJobs : AssignJob(r[1], j, r[2], NoReason)
    \/ \E sub \in Subs, j \in 1..MaxJobs : RejectJob(sub, j)
    \/ \E sub \in ClerkCallers, j \in 1..MaxJobs : StartJob(sub, j)
    \/ \E sub \in ClerkCallers, j \in 1..MaxJobs : CheckIn(sub, j, FarPoint[1], FarPoint[2])
    \/ \E sub \in ClerkCallers, j \in 1..MaxJobs :
          CompleteJob(sub, j, 515001, -1200, HandoverInput)

Spec == Init /\ [][Next]_vars

\* The same requests against a database that holds no job yet.
InitFresh == Init /\ jobs = <<>>
SpecFresh == InitFresh /\ [][Next]_vars

\* The assignment requests alone (create, assign, reject), against a database
\* that holds no job or one job in any status with any clerk: the
\* administrative update endpoint writes status and assigned_clerk_id as
\* supplied, so each such row is one the program can hold.
SeedJobs ==
    {[NewJob(1, d) EXCEPT !.status = s, !.assigned_clerk_id = c] :
        d \in {Today, Tomorrow}, s \in Statuses, c \in {NULL, 2, 3}}
InitAssign ==
    /\ Init!1 /\ Init!2 /\ Init!4 /\ Init!5 /\ Init!6 /\ Init!7
    /\ jobs \in {<<>>} \cup {<<job>> : job \in SeedJobs}
\* The requests of this specification: the admin creating with automatic
\* assignment on either date or manually with clerk 3, and the admin assigning
\* no clerk or one of the clerks.
AssignCreateRequests ==
    {r \in CreateRequests : r[4] = "auto"} \cup {<<1, 1, Tomorrow, "manual", 3>>}
AssignOnlyRequests == {r \in AssignRequests : r[1] = 1 /\ r[2] \in {NULL, 2, 3}}
NextAssign ==
    \/ \E r \in AssignCreateRequests : CreateJob(r[1], r[2], r[3], r[4], r[5], NoReason)
    \/ \E r \in AssignOnlyRequests, j \in 1..MaxJobs : AssignJob(r[1], j, r[2], NoReason)
    \/ \E sub \in Subs, j \in 1..MaxJobs : RejectJob(sub, j)
SpecAssign == InitAssign /\ [][NextAssign]_vars

\* The assignment requests together with the deletion of users by the admin:
\* of a clerk, and of an id of no row.
NextAudit ==
    \/ \E r \in AssignCreateRequests : CreateJob(r[1], r[2], r[3], r[4], r[5], NoReason)
    \/ \E r \in AssignOnlyRequests, j \in 1..MaxJobs : AssignJob(r[1], j, r[2], NoReason)
    \/ \E sub \in Subs, j \in 1..MaxJobs : RejectJob(sub, j)
    \/ \E u \in {2, 3, NoSuchUser} : DeleteUser(1, u)
    \/ \E u \in {2} : DeleteUser(3, u)
SpecAudit == InitAssign /\ [][NextAudit]_vars

\* The assignment requests, each of which may also fail at one of its writes:
\* a creation, an assignment to clerk 3 and a reject by clerk 3.
NextFault ==
    \/ \E r \in AssignCreateRequests : CreateJob(r[1], r[2], r[3], r[4], r[5], NoReason)
    \/ \E r \in AssignOnlyRequests, j \in 1..MaxJobs : AssignJob(r[1], j, r[2], NoReason)
    \/ \E sub \in Subs, j \in 1..MaxJobs : RejectJob(sub, j)
    \/ \E r \in {<<1, 1, Tomorrow, "auto", NULL>>} :
          CreateJobFails(r[1], r[2], r[3], r[4], r[5])
    \/ \E r \in {<<1, 3>>}, j \in 1..MaxJobs : AssignJobFails(r[1], j, r[2])
    \/ \E sub \in {3}, j \in 1..MaxJobs : RejectJobFails(sub, j)
SpecFault == InitAssign /\ [][NextFault]_vars

\* Two requests served at once on the job of InitAssign: the admin assigning
\* clerk 2 or clerk 3, and a clerk rejecting.
NextConcurrent ==
    \/ \E t \in Requests, c \in {2, 3}, j \in 1..MaxJobs : AssignJobRead(t, 1, j, c)
    \/ \E t \in Requests : AssignJobCommit(t)
    \/ \E t \in Requests, sub \in {2, 3}, j \in 1..MaxJobs : RejectJobRead(t, sub, j)
    \/ \E t \in Requests : RejectJobCommit(t)
SpecConcurrent == InitAssign /\ [][NextConcurrent]_vars

\* The scoring specification: auto_assign_job is applied, by create and by
\* reject, over a database drawn from bounded sets. User 1 is an admin who
\* is active, on shift and stands at the property; each of the clerks 2 and
\* 3 is active or not, on shift or not, and has no position or stands 2 km
\* or 6 km north of the property. Each clerk has no availability record for
\* tomorrow, or one that is marked available, with a postcode in the
\* property's district or in another. The jobs table is empty or holds one
\* job of the property that a clerk holds or has completed.
ClerkRows ==
    {UserRow("clerk", a, sh, lat, IF lat = NULL THEN NULL ELSE -1200) :
        a \in BOOLEAN, sh \in BOOLEAN, lat \in {NULL, 515180, 515540}}
AvailabilityChoices(c) ==
    {{}} \cup {{[user_id |-> c, available_date |-> Tomorrow, is_available |-> TRUE,
                 postcode |-> pc]} :
                pc \in {<<"S", "W", "1", "A", " ", "2", "B", "B">>,
                        <<"E", "C", "1", "A", " ", "1", "B", "B">>}}
HistoryJobs == {job \in SeedJobs : /\ job.appointment_date = Today
                                   /\ job.status \in {"assigned", "completed"}
                                   /\ job.assigned_clerk_id # NULL}
InitScore ==
    /\ \E r2 \in ClerkRows, r3 \in ClerkRows :
          users = (1 :> UserRow("admin", TRUE, TRUE, 515000, -1200))
                  @@ (2 :> r2) @@ (3 :> r3)
    /\ \E a2 \in AvailabilityChoices(2), a3 \in AvailabilityChoices(3) :
          availability = a2 \cup a3
    /\ jobs \in {<<>>} \cup {<<job>> : job \in HistoryJobs}
    /\ Init!4 /\ Init!5 /\ Init!6 /\ Init!7
NextScore ==
    \/ \E d \in {Today, Tomorrow} : CreateJob(1, 1, d, "auto", NULL, NoReason)
    \/ \E sub \in {2, 3}, j \in 1..MaxJobs : RejectJob(sub, j)
SpecScore == InitScore /\ [][NextScore]_vars

\* The position specification: both clerks are active and hold an
\* availability record for tomorrow that is marked available; clerk 3 is on
\* shift, clerk 2 is or is not. Clerk 2 has one of the positions below:
\* none, one coordinate only, at the property, 2 km, 9 km and 11 km north of
\* it, on the Greenwich meridian (longitude 0) 8.3 km east of it, and two
\* points off its meridian and parallel; clerk 3 has none, stands on the
\* meridian, or 2 km north of the property.
PositionChoices ==
    {<<NULL, NULL>>, <<515180, NULL>>, <<NULL, -1200>>,
     <<515000, -1200>>, <<515180, -1200>>, <<515810, -1200>>, <<516000, -1200>>,
     <<515000, 0>>, <<515300, -1800>>, <<514000, -2000>>}
AvailableTomorrow(c, pc) ==
    [user_id |-> c, available_date |-> Tomorrow, is_available |-> TRUE, postcode |-> pc]
InitPosition ==
    /\ \E p2 \in PositionChoices,
          p3 \in {<<NULL, NULL>>, <<515000, 0>>, <<515180, -1200>>}, sh \in BOOLEAN :
          users = (1 :> UserRow("admin", TRUE, TRUE, 515000, -1200))
                  @@ (2 :> UserRow("clerk", TRUE, sh, p2[1], p2[2]))
                  @@ (3 :> UserRow("clerk", TRUE, TRUE, p3[1], p3[2]))
    /\ \E pc \in {<<"S", "W", "1", "A", " ", "2", "B", "B">>,
                    <<"E", "C", "1", "A", " ", "1", "B", "B">>} :
          availability = {AvailableTomorrow(2, pc),
                          AvailableTomorrow(3, <<"E", "C", "1", "A", " ", "1", "B", "B">>)}
    /\ jobs = <<>>
    /\ Init!4 /\ Init!5 /\ Init!6 /\ Init!7
NextPosition ==
    \/ \E d \in {Today, Tomorrow} : CreateJob(1, 1, d, "auto", NULL, NoReason)
    \/ \E sub \in {2, 3}, j \in 1..MaxJobs : RejectJob(sub, j)
    \/ \E d \in {Today, Tomorrow} : AutoAssignCall(d)
SpecPosition == InitPosition /\ [][NextPosition]_vars

\* The workload specification: clerk 2, 9 km from the property, holds k jobs
\* in the active statuses (assign_job sets no limit on their number) and
\* possibly one more job in another status; clerk 3, 11 km away, holds none.
\* Both are available tomorrow.
ActiveStatusAt(i) ==
    IF i % 3 = 0 THEN "assigned" ELSE IF i % 3 = 1 THEN "on_route" ELSE "in_progress"
HeldJob(s) == [NewJob(1, Tomorrow) EXCEPT !.status = s, !.assigned_clerk_id = 2]
WorkloadJobs(k, r) == [i \in 1..k |-> HeldJob(ActiveStatusAt(i + r))]
InitWorkload ==
    /\ users = (1 :> UserRow("admin", TRUE, TRUE, 515000, -1200))
               @@ (2 :> UserRow("clerk", TRUE, TRUE, 515810, -1200))
               @@ (3 :> UserRow("clerk", TRUE, TRUE, 516000, -1200))
    /\ availability = {AvailableTomorrow(2, <<>>), AvailableTomorrow(3, <<>>)}
    /\ \E k \in 0..MaxLoad, r \in 0..2 :
          jobs \in {WorkloadJobs(k, r)}
                   \cup {Append(WorkloadJobs(k, r), HeldJob(s)) :
                            s \in Statuses \ ActiveStatuses}
    /\ Init!4 /\ Init!5 /\ Init!6 /\ Init!7
NextWorkload ==
    \/ \E d \in {Today, Tomorrow} : AutoAssignCall(d)
    \/ \E sub \in {2, 3} : RejectJob(sub, 1)
SpecWorkload == InitWorkload /\ [][NextWorkload]_vars

\* The geofence specification: one job of clerk 2, at the property with
\* coordinates or at the one without, is started and checked in, possibly
\* more than once, from 44 m or 156 m north of the property, from a point on
\* the Greenwich meridian 8.3 km east of it, or with one or both coordinates
\* absent from the request body.
CheckInPoints ==
    {<<515004, -1200>>, FarPoint, <<515000, 0>>, <<NULL, NULL>>, <<515014, NULL>>}
InitGeofence ==
    /\ Init!1 /\ Init!2 /\ Init!4 /\ Init!5 /\ Init!6 /\ Init!7
    /\ \E p \in PropertyIds, d \in {Today, Tomorrow}, s \in ActiveStatuses :
          jobs = <<[NewJob(p, d) EXCEPT !.status = s, !.assigned_clerk_id = 2]>>
NextGeofence ==
    \/ StartJob(2, 1)
    \/ \E pt \in CheckInPoints : CheckIn(2, 1, pt[1], pt[2])
SpecGeofence == InitGeofence /\ [][NextGeofence]_vars

\* The availability specification: clerk 2 is active or not, on shift or
\* not, with or without a position, and holds no availability record, one
\* for tomorrow (available or not), an available one for today or for the
\* day after only, or an unavailable one for tomorrow with an available one
\* for the day after. Clerk 3 is active, off shift, without a position, and
\* available tomorrow. Jobs are created for the three dates with automatic
\* assignment, and for tomorrow with a clerk id naming the admin, clerk 2,
\* clerk 3 or nobody.
AvailabilityRow(c, d, a) ==
    [user_id |-> c, available_date |-> d, is_available |-> a, postcode |-> <<>>]
ClerkTwoRecords ==
    {{}, {AvailabilityRow(2, Tomorrow, TRUE)}, {AvailabilityRow(2, Tomorrow, FALSE)},
     {AvailabilityRow(2, Today, TRUE)}, {AvailabilityRow(2, DayAfter, TRUE)},
     {AvailabilityRow(2, Tomorrow, FALSE), AvailabilityRow(2, DayAfter, TRUE)}}
InitAvailability ==
    /\ \E a \in BOOLEAN, sh \in BOOLEAN, pt \in {<<NULL, NULL>>, <<515180, -1200>>} :
          users = (1 :> UserRow("admin", TRUE, TRUE, 515000, -1200))
                  @@ (2 :> UserRow("clerk", a, sh, pt[1], pt[2]))
                  @@ (3 :> UserRow("clerk", TRUE, FALSE, NULL, NULL))
    /\ \E recs \in ClerkTwoRecords :
          availability = recs \cup {AvailabilityRow(3, Tomorrow, TRUE)}
    /\ jobs = <<>>
    /\ Init!4 /\ Init!5 /\ Init!6 /\ Init!7
ManualClerkIds == {1, 2, 3, NoSuchUser}
AvailabilityCreateRequests ==
    {<<1, 1, d, "auto", NULL>> : d \in {Today, Tomorrow, DayAfter}}
    \cup {<<1, 1, Tomorrow, "manual", c>> : c \in ManualClerkIds}
NextAvailability ==
    \/ \E r \in AvailabilityCreateRequests :
          CreateJob(r[1], r[2], r[3], r[4], r[5], NoReason)
    \/ \E sub \in {2, 3}, j \in 1..MaxJobs : RejectJob(sub, j)
SpecAvailability == InitAvailability /\ [][NextAvailability]_vars

\* The history specification: clerks 2 and 3 are active, without a position
\* and available tomorrow. Up to two earlier jobs exist, at the property or
\* at the other one, held by clerk 2 or 3: completed through complete_job at
\* time 1 or 2, assigned, or cancelled. The clock stands at 2. Jobs are
\* completed by their clerk or set to completed by the admin through
\* update_job, and automatic assignment runs for a job at the property tomorrow.
EarlierJobs ==
    {[NewJob(p, Today) EXCEPT !.status = "completed", !.assigned_clerk_id = c,
                              !.check_out_at = t] :
        p \in PropertyIds, c \in {2, 3}, t \in {1, 2}}
    \cup {[NewJob(p, Today) EXCEPT !.status = "assigned", !.assigned_clerk_id = c] :
             p \in PropertyIds, c \in {2, 3}}
    \cup {[NewJob(p, Today) EXCEPT !.status = "cancelled", !.assigned_clerk_id = 2] :
             p \in PropertyIds}
InitHistory ==
    /\ users = (1 :> UserRow("admin", TRUE, TRUE, 515000, -1200))
               @@ (2 :> UserRow("clerk", TRUE, FALSE, NULL, NULL))
               @@ (3 :> UserRow("clerk", TRUE, FALSE, NULL, NULL))
    /\ availability = {AvailableTomorrow(2, <<>>), AvailableTomorrow(3, <<>>)}
    /\ jobs \in {<<>>} \cup {<<a>> : a \in EarlierJobs}
                \cup {<<a, b>> : a \in EarlierJobs, b \in EarlierJobs}
    /\ now = 2
    /\ Init!4 /\ Init!6 /\ Init!7
NextHistory ==
    \/ \E j \in 1..2 : UpdateJob(1, j, [status |-> "completed"])
    \/ \E sub \in {2, 3}, j \in 1..2 : CompleteJob(sub, j, 515001, -1200, HandoverInput)
    \/ AutoAssignCall(Tomorrow)
    \/ CreateJob(1, 1, Tomorrow, "auto", NULL, NoReason)
SpecHistory == InitHistory /\ [][NextHistory]_vars

\* The postcode specification: clerks 2 and 3 are active and available
\* tomorrow; clerk 3 has no position, clerk 2 has none or stands 2 km from
\* the property. The postcode on each record starts like the property's
\* (SW1A), is shorter than four characters, differs, or is absent. Jobs are
\* created for tomorrow at the property with coordinates and at the one
\* without; both properties have the postcode SW1A 1AA.
RecordPostcodes ==
    {<<"S", "W", "1", "A", " ", "2", "B", "B">>, <<"S", "W", "1">>,
     <<"E", "C", "1", "A", " ", "1", "B", "B">>, <<>>}
InitPostcode ==
    /\ \E pt \in {<<NULL, NULL>>, <<515180, -1200>>} :
          users = (1 :> UserRow("admin", TRUE, TRUE, 515000, -1200))
                  @@ (2 :> UserRow("clerk", TRUE, FALSE, pt[1], pt[2]))
                  @@ (3 :> UserRow("clerk", TRUE, FALSE, NULL, NULL))
    /\ \E pc2 \in RecordPostcodes, pc3 \in RecordPostcodes :
          availability = {AvailableTomorrow(2, pc2), AvailableTomorrow(3, pc3)}
    /\ jobs = <<>>
    /\ Init!4 /\ Init!5 /\ Init!6 /\ Init!7
NextPostcode ==
    \/ \E p \in PropertyIds : CreateJob(1, p, Tomorrow, "auto", NULL, NoReason)
    \/ \E sub \in {2, 3}, j \in 1..MaxJobs : RejectJob(sub, j)
SpecPostcode == InitPostcode /\ [][NextPostcode]_vars

\* The calendar specification: no record exists at the start; clerks 2 and
\* 3 create, update and delete records of today and tomorrow for themselves
\* or for each other (the routes do not compare user_id with the caller).
\* Lists and maps hold one or two entries, for clerk 2, and may name one date twice.
CalendarItems ==
    [user_id : {2, 3}, available_date : {Today, Tomorrow}, is_available : BOOLEAN,
     postcode : {<<>>}]
CalendarLists ==
    {<<a>> : a \in {i \in CalendarItems : i.user_id = 2}}
    \cup {<<a, b>> : a \in {i \in CalendarItems : i.user_id = 2 /\ i.is_available},
                     b \in {i \in CalendarItems : i.user_id = 2}}
CalendarEntries ==
    [available_date : {Today, Tomorrow}, is_available : BOOLEAN, postcode : {<<>>}]
CalendarDicts ==
    {<<a>> : a \in CalendarEntries}
    \cup {<<a, b>> : a \in {e \in CalendarEntries : e.is_available}, b \in CalendarEntries}
InitCalendar ==
    /\ Init!1 /\ Init!3 /\ Init!4 /\ Init!5 /\ Init!6 /\ Init!7
    /\ availability = {}
NextCalendar ==
    \/ \E sub \in {1, 2}, item \in CalendarItems : CreateAvailability(sub, item)
    \/ \E items \in CalendarLists : CreateAvailabilityList(2, items)
    \/ \E u \in {NULL, 2}, entries \in CalendarDicts : CreateAvailabilityDict(3, u, entries)
    \/ \E id \in 1..(MaxRecords + 1), d \in {NULL, Today, Tomorrow}, a \in {{}, {FALSE}} :
          UpdateAvailability(2, id, d, a)
    \/ \E id \in 1..(MaxRecords + 1) : DeleteAvailability(3, id)
SpecCalendar == InitCalendar /\ [][NextCalendar]_vars

\* The lifecycle specification: against a database without jobs, the admin
\* creates jobs for tomorrow (automatic, manual with clerk 3, or unassigned)
\* and assigns clerk 2 or nobody; clerks 2 and 3 reject; clerk 2 starts,
\* checks in and completes the first job. One request runs at a time.
LifecycleCreateRequests ==
    {<<1, 1, Tomorrow, "auto", NULL>>, <<1, 1, Tomorrow, "manual", 3>>,
     <<1, 1, Tomorrow, "manual", NULL>>}
NextLifecycle ==
    \/ \E r \in LifecycleCreateRequests : CreateJob(r[1], r[2], r[3], r[4], r[5], NoReason)
    \/ \E c \in {NULL, 2}, j \in 1..MaxJobs : AssignJob(1, j, c, NoReason)
    \/ \E sub \in {2, 3}, j \in 1..MaxJobs : RejectJob(sub, j)
    \/ StartJob(2, 1)
    \/ CheckIn(2, 1, FarPoint[1], FarPoint[2])
    \/ CompleteJob(2, 1, 515001, -1200, HandoverInput)
SpecLifecycle == InitFresh /\ [][NextLifecycle]_vars

\* The update specification: against a database without jobs, the admin
\* creates jobs for tomorrow and assigns clerk 2, and clerk 3 sends updates
\* holding a status, a clerk id (of the admin, of clerk 3, of nobody, null),
\* or both. Assignments and updates address the first job.
UpdateBodies ==
    {[status |-> s] : s \in {"assigned", "completed", "cancelled"}}
    \cup {[assigned_clerk_id |-> c] : c \in {NULL, 1, 3, NoSuchUser}}
    \cup {[status |-> "completed", assigned_clerk_id |-> 1]}
NextUpdate ==
    \/ \E r \in LifecycleCreateRequests : CreateJob(r[1], r[2], r[3], r[4], r[5], NoReason)
    \/ AssignJob(1, 1, 2, NoReason)
    \/ \E data \in UpdateBodies : UpdateJob(3, 1, data)
SpecUpdate == InitFresh /\ [][NextUpdate]_vars

\* ================================================================ claims
Terminal == {"completed", "cancelled"}
\* The step is a request `op` on an existing job by a caller with role `role`.
IsRequest(op, role) ==
    /\ last'.op = op
    /\ last'.job \in JobIds(jobs)
    /\ CallerRole(last'.caller) = role
\* The request was refused as a state conflict and wrote nothing.
StateConflict == last'.code = 409 /\ jobs' = jobs /\ log' = log

\* C1: start succeeds only from assigned, where it sets on_route and stamps
\* on_route_at with the current time; from every other status it fails with
\* a state conflict and leaves status and on_route_at as they were.
C1_StartOnlyFromAssigned ==
    [][IsRequest("start", "clerk") =>
         LET j == last'.job
         IN IF jobs[j].status = "assigned"
            THEN /\ last'.code = 200
                 /\ jobs'[j].status = "on_route"
                 /\ jobs'[j].on_route_at = now'
            ELSE /\ last'.code = 409
                 /\ jobs'[j].status = jobs[j].status
                 /\ jobs'[j].on_route_at = jobs[j].on_route_at]_vars

\* C2 (P7): on a completed or cancelled job each of start, check-in and
\* manual assignment fails with a state conflict and leaves the job and the
\* assignment log unchanged.
C2_TerminalJobsRefuse ==
    [][(/\ \/ IsRequest("start", "clerk")
           \/ IsRequest("check_in", "clerk")
           \/ IsRequest("assign", "admin")
        /\ jobs[last'.job].status \in Terminal) => StateConflict]_vars

\* C3: completed and cancelled are terminal: no step changes the status of
\* a job that is completed or cancelled.
C3_TerminalIsFinal ==
    [][\A j \in JobIds(jobs) :
         jobs[j].status \in Terminal => jobs'[j].status = jobs[j].status]_vars

\* C4: check-in succeeds only from on_route or assigned, where it records
\* the coordinates and the time and sets in_progress; from every other
\* status it fails with a state conflict and changes nothing.
C4_CheckInOnlyFromOnRouteOrAssigned ==
    [][IsRequest("check_in", "clerk") =>
         LET j == last'.job
         IN IF jobs[j].status \in {"on_route", "assigned"}
            THEN /\ last'.code = 200
                 /\ jobs'[j].status = "in_progress"
                 /\ jobs'[j].check_in_at = now'
                 /\ <<jobs'[j].check_in_lat, jobs'[j].check_in_lng>> = FarPoint
            ELSE StateConflict]_vars

\* C5: complete succeeds only from in_progress, where it records check-out
\* coordinates and time, stores the handover data and sets completed; from
\* every other status it fails with a state conflict and changes nothing.
C5_CompleteOnlyFromInProgress ==
    [][IsRequest("complete", "clerk") =>
         LET j == last'.job
         IN IF jobs[j].status = "in_progress"
            THEN /\ last'.code = 200
                 /\ jobs'[j].status = "completed"
                 /\ jobs'[j].check_out_at = now'
                 /\ jobs'[j].check_out_lat # NULL
                 /\ jobs'[j].handover_data # {}
            ELSE StateConflict]_vars

\* C6: in every committed state a job has an assigned clerk if and only if
\* its status is assigned, on_route, in_progress or completed.
C6_ClerkIffStatus ==
    \A j \in JobIds(jobs) :
        (jobs[j].assigned_clerk_id # NULL)
            <=> (jobs[j].status \in {"assigned", "on_route", "in_progress", "completed"})

\* C7: manual assignment of an existing job with a clerk id that is missing,
\* of no user, of a user who is not a clerk or of an inactive clerk is
\* refused with an error and leaves the job and the log unchanged; a
\* successful manual assignment always leaves an active clerk assigned.
IsActiveClerk(c) ==
    c \in DOMAIN users /\ users[c].role = "clerk" /\ users[c].is_active
C7_AssignValidatesClerk ==
    [][/\ \A sub \in DOMAIN users, j \in JobIds(jobs), c \in AssignClerkInputs :
            (AssignJob(sub, j, c, NoReason) /\ CallerRole(sub) = "admin" /\ ~IsActiveClerk(c))
                => (last'.code >= 400 /\ jobs' = jobs /\ log' = log)
       /\ (IsRequest("assign", "admin") /\ last'.code = 200)
            => IsActiveClerk(jobs'[last'.job].assigned_clerk_id)]_vars

\* C8: a reject request for a job by any caller other than the clerk who is
\* assigned to it is refused with 403 and leaves the jobs and the assignment
\* log unchanged.
C8_OnlyAssignedClerkRejects ==
    [][(/\ last'.op = "reject"
        /\ last'.job \in JobIds(jobs)
        /\ jobs[last'.job].assigned_clerk_id # last'.caller)
          => (last'.code = 403 /\ jobs' = jobs /\ log' = log)]_vars
\* A clerk was refused the rejection of a job that another clerk holds.
C8_Witness ==
    /\ last.op = "reject" /\ last.code = 403
    /\ last.job \in JobIds(jobs)
    /\ CallerRole(last.caller) = "clerk"
    /\ jobs[last.job].assigned_clerk_id \in DOMAIN users \ {last.caller}

\* C9: a successful reject keeps the earlier log and appends right after it
\* a REJECTION entry (previous = the rejecting clerk, new = null, triggered
\* by the rejecting clerk); an AUTO_ASSIGN entry, when the job is reassigned,
\* is the one entry after it, and nothing else is appended.
C9_RejectionLoggedFirst ==
    [][(last'.op = "reject" /\ last'.code = 200) =>
         LET j == last'.job
             c == last'.caller
             n == Len(log)
         IN /\ jobs[j].assigned_clerk_id = c
            /\ Len(log') \in {n + 1, n + 2}
            /\ SubSeq(log', 1, n) = log
            /\ log'[n + 1] = [job_id |-> j, previous_clerk_id |-> c,
                              new_clerk_id |-> NULL, action_type |-> "REJECTION",
                              triggered_by_user_id |-> c,
                              reason |-> "Clerk rejected assignment"]
            /\ Len(log') = n + 2 => log'[n + 2].action_type = "AUTO_ASSIGN"
            /\ jobs'[j].assigned_clerk_id # NULL => Len(log') = n + 2]_vars
\* A reject has just reassigned the job: REJECTION then AUTO_ASSIGN end the log.
C9_Witness ==
    /\ last.op = "reject" /\ last.code = 200
    /\ Len(log) >= 2
    /\ log[Len(log) - 1].action_type = "REJECTION"
    /\ log[Len(log)].action_type = "AUTO_ASSIGN"
    /\ log[Len(log) - 1].previous_clerk_id = last.caller

\* C10: after a successful reject either the candidate pool of the job was
\* not empty, the job is assigned to a clerk of the pool and a second entry
\* (AUTO_ASSIGN, previous = null, new = that clerk) was logged; or the pool
\* was empty, the job is pending_assignment without a clerk and no
\* AUTO_ASSIGN entry was logged.
C10_RejectOutcome ==
    [][(last'.op = "reject" /\ last'.code = 200) =>
         LET j == last'.job
             n == Len(log)
             pool == CandidatePool(users, availability, jobs[j])
             winner == jobs'[j].assigned_clerk_id
         IN \/ /\ pool # {}
               /\ jobs'[j].status = "assigned"
               /\ winner \in pool
               /\ Len(log') = n + 2
               /\ log'[n + 2] = [job_id |-> j, previous_clerk_id |-> NULL,
                                 new_clerk_id |-> winner, action_type |-> "AUTO_ASSIGN",
                                 triggered_by_user_id |-> NULL,
                                 reason |-> "Auto-reassigned after rejection"]
            \/ /\ pool = {}
               /\ jobs'[j].status = "pending_assignment"
               /\ winner = NULL
               /\ Len(log') = n + 1
               /\ log'[n + 1].action_type # "AUTO_ASSIGN"]_vars
\* A reject has just handed the job to a clerk of the pool.
C10_Witness ==
    /\ last.op = "reject" /\ last.code = 200
    /\ jobs[last.job].status = "assigned"
    /\ jobs[last.job].assigned_clerk_id
         \in CandidatePool(users, availability, jobs[last.job])
\* A reject has just left the job pending: no clerk was eligible.
C10_WitnessEmptyPool ==
    /\ last.op = "reject" /\ last.code = 200
    /\ jobs[last.job].status = "pending_assignment"
    /\ jobs[last.job].assigned_clerk_id = NULL
    /\ CandidatePool(users, availability, jobs[last.job]) = {}

\* The log rows a step appended.
Appended == SubSeq(log', Len(log) + 1, Len(log'))
\* The clerk of job j before the step; a job the step creates had none.
ClerkBefore(j) == IF j \in JobIds(jobs) THEN jobs[j].assigned_clerk_id ELSE NULL

\* C11 (P6): each successful assignment decision appends exactly one log
\* entry for the job, with previous = the job's clerk right before the
\* decision and new = the job's clerk right after it: one entry for an
\* assignment at creation and for a manual assignment, and for a rejection
\* one REJECTION entry (clerk -> null) followed, when the job is reassigned,
\* by one more entry (null -> the new clerk). The earlier log is kept.
C11_OneEntryPerDecision ==
    [][LET j == last'.job
           added == Appended
           ok(e, prev, new) == /\ e.job_id = j
                               /\ e.previous_clerk_id = prev
                               /\ e.new_clerk_id = new
       IN /\ (last'.op = "assign" /\ last'.code = 200) =>
                /\ SubSeq(log', 1, Len(log)) = log
                /\ Len(added) = 1
                /\ ok(added[1], ClerkBefore(j), jobs'[j].assigned_clerk_id)
          /\ (last'.op = "create" /\ last'.code = 201
                 /\ jobs'[j].assigned_clerk_id # NULL) =>
                /\ SubSeq(log', 1, Len(log)) = log
                /\ Len(added) = 1
                /\ ok(added[1], NULL, jobs'[j].assigned_clerk_id)
          /\ (last'.op = "reject" /\ last'.code = 200) =>
                /\ SubSeq(log', 1, Len(log)) = log
                /\ Len(added) = (IF jobs'[j].assigned_clerk_id = NULL THEN 1 ELSE 2)
                /\ ok(added[1], ClerkBefore(j), NULL)
                /\ Len(added) = 2 => ok(added[2], NULL, jobs'[j].assigned_clerk_id)]_vars
\* A manual assignment has just moved a job from one clerk to another and
\* the last entry records both.
C11_Witness ==
    /\ last.op = "assign" /\ last.code = 200
    /\ Len(log) >= 1
    /\ log[Len(log)].previous_clerk_id \in DOMAIN users
    /\ log[Len(log)].new_clerk_id \in DOMAIN users \ {log[Len(log)].previous_clerk_id}
    /\ jobs[last.job].assigned_clerk_id = log[Len(log)].new_clerk_id

\* C12: a successful manual assignment, of an existing job or at creation,
\* sets the status assigned and appends one entry with action
\* MANUAL_OVERRIDE, previous = the clerk assigned before the call (null if
\* none), new = the supplied clerk, triggered_by = the acting user and
\* reason = the supplied reason or the default text.
C12_ManualAssignLogged ==
    [][LET j == last'.job
           e == log'[Len(log')]
       IN /\ (last'.op = "assign" /\ last'.code = 200) =>
                /\ jobs'[j].status = "assigned"
                /\ Len(log') = Len(log) + 1
                /\ e = LogEntry(j, ClerkBefore(j), jobs'[j].assigned_clerk_id,
                                "MANUAL_OVERRIDE", last'.caller, "Admin manual assignment")
          /\ (\E r \in CreateRequests :
                  /\ r[4] = "manual" /\ r[5] # NULL
                  /\ CreateJob(r[1], r[2], r[3], r[4], r[5], NoReason)
                  /\ last'.code = 201) =>
                /\ jobs'[j].status = "assigned"
                /\ Len(log') = Len(log) + 1
                /\ e = LogEntry(j, NULL, jobs'[j].assigned_clerk_id,
                                "MANUAL_OVERRIDE", last'.caller,
                                "Manual assignment during job creation")]_vars

\* C13: the assignment log is append-only: every step keeps each committed
\* entry, in place and with the same job, previous clerk, new clerk, action
\* type, triggering user and reason, so the earlier log is a prefix of the
\* later one; this includes the step that deletes a user an entry refers to.
C13_LogAppendOnly ==
    [][/\ Len(log') >= Len(log)
       /\ \A i \in 1..Len(log) : log'[i] = log[i]]_vars

\* C14: create, manual assignment and reject commit the change of the job
\* together with its log entry or nothing: a request that ends in an error
\* leaves the jobs and the log as they were; a step that sets or clears a
\* job's clerk appends a log entry for that job whose new clerk is the clerk
\* the job now has; and a step that appends a log entry leaves the job with
\* the clerk the last appended entry names.
C14_AssignmentAtomicWithLog ==
    [][last'.op \in {"create", "assign", "reject"} =>
         LET j == last'.job
             added == Appended
             clerkSet == IF j \in JobIds(jobs)
                         THEN jobs'[j].assigned_clerk_id # jobs[j].assigned_clerk_id
                         ELSE j \in JobIds(jobs') /\ jobs'[j].assigned_clerk_id # NULL
             matching == /\ Len(added) >= 1
                         /\ \A i \in 1..Len(added) : added[i].job_id = j
                         /\ added[Len(added)].new_clerk_id = jobs'[j].assigned_clerk_id
         IN /\ last'.code >= 400 => (jobs' = jobs /\ log' = log)
            /\ SubSeq(log', 1, Len(log)) = log
            /\ clerkSet => matching
            /\ Len(added) >= 1 => (matching /\ last'.code \in {200, 201})]_vars
\* A reject has just failed (500) after the clerk check: the job is still
\* held by the caller and no REJECTION entry ends the log.
C14_Witness ==
    /\ last.op = "reject" /\ last.code = 500
    /\ jobs[last.job].assigned_clerk_id = last.caller
    /\ jobs[last.job].status = "assigned"
    /\ (Len(log) = 0 \/ log[Len(log)].action_type # "REJECTION")

\* Request t commits or aborts in this step.
Finishes(t) == txn[t].pc = "read" /\ txn'[t].pc = "idle"

\* C15: a manual assignment re-checks the status of the job inside its
\* transaction: when the status is no longer the one the request read, as
\* after a concurrent assignment that committed first, the request aborts
\* with a conflict error and writes nothing, so of two assignments that
\* read the same pending job at most one succeeds.
C15_StaleAssignAborts ==
    [][\A t \in Requests :
         (/\ Finishes(t) /\ txn[t].op = "assign"
          /\ jobs[txn[t].job].status # txn[t].seen.status) => StateConflict]_vars

\* C16: no lost update: the entries a step appends record as previous clerk
\* the clerk the job held in the committed state right before the step, as
\* in a serial execution of the requests.
C16_PreviousClerkIsCommitted ==
    [][Len(log') > Len(log) =>
         LET e == log'[Len(log) + 1]
         IN e.previous_clerk_id = ClerkBefore(e.job_id)]_vars

\* The total score of clerk c for the job over the jobs js, given the row
\* the previous-job query returned (NULL for none).
TotalScore(js, job, c, prev) ==
    Score(users, js, job, c, prev, DateRows(availability, c, job.appointment_date))
PreviousJobChoices(js, job) ==
    IF PreviousJobs(js, job.property_id) = {} THEN {NULL}
    ELSE PreviousJobs(js, job.property_id)
\* c has a highest total score among the pool of the job.
IsTopScorer(js, job, c) ==
    /\ c \in CandidatePool(users, availability, job)
    /\ \E prev \in PreviousJobChoices(js, job) :
          \A d \in CandidatePool(users, availability, job) :
             TotalScore(js, job, c, prev) >= TotalScore(js, job, d, prev)

\* C17: a create with automatic assignment answers 201 and adds the job; if
\* the candidate pool is not empty the job is assigned to a clerk with the
\* highest total score and exactly one entry (AUTO_ASSIGN, previous = null,
\* new = that clerk) is logged; if the pool is empty the job is
\* pending_assignment, has no clerk and nothing is logged.
C17_CreateAutoOutcome ==
    [][\A d \in {Today, Tomorrow} :
         CreateJob(1, 1, d, "auto", NULL, NoReason) =>
           LET j == Len(jobs) + 1
               job == NewJob(1, d)
               winner == jobs'[j].assigned_clerk_id
           IN /\ last'.code = 201 /\ last'.job = j
              /\ Len(jobs') = j
              /\ SubSeq(jobs', 1, Len(jobs)) = jobs
              /\ IF CandidatePool(users, availability, job) # {}
                 THEN /\ jobs'[j] = [job EXCEPT !.status = "assigned",
                                                 !.assigned_clerk_id = winner]
                      /\ IsTopScorer(jobs, job, winner)
                      /\ Len(log') = Len(log) + 1
                      /\ SubSeq(log', 1, Len(log)) = log
                      /\ log'[Len(log')].job_id = j
                      /\ log'[Len(log')].action_type = "AUTO_ASSIGN"
                      /\ log'[Len(log')].previous_clerk_id = NULL
                      /\ log'[Len(log')].new_clerk_id = winner
                 ELSE /\ jobs'[j] = job
                      /\ log' = log]_vars
\* A create has just assigned the new job to one of two candidates.
C17_Witness ==
    /\ last.op = "create" /\ last.code = 201
    /\ jobs[last.job].status = "assigned"
    /\ jobs[last.job].assigned_clerk_id \in {2, 3}
    /\ Cardinality(CandidatePool(users, availability, jobs[last.job])) = 2
    /\ log[Len(log)].action_type = "AUTO_ASSIGN"
\* A create has just left the new job pending: no clerk was eligible.
C17_WitnessEmptyPool ==
    /\ last.op = "create" /\ last.code = 201
    /\ jobs[last.job].status = "pending_assignment"
    /\ jobs[last.job].assigned_clerk_id = NULL
    /\ CandidatePool(users, availability, jobs[last.job]) = {}
    /\ log = <<>>

\* The clerk ids auto_assign_job may return for a job of the property on
\* date d over the stored data.
Winners(d) == AutoAssignResults(users, availability, jobs, NewJob(1, d)) \ {NULL}

\* C18 (P5): auto_assign_job never returns a user who is inactive or whose
\* role is not clerk, and for a job of today never a clerk who is off shift,
\* whatever that user's score would be; the clerk an AUTO_ASSIGN entry names
\* is such a user.
C18_EligibilityExclusion ==
    /\ \A d \in {Today, Tomorrow} : \A w \in Winners(d) :
          /\ w \in DOMAIN users
          /\ users[w].role = "clerk"
          /\ users[w].is_active
          /\ d = Today => users[w].is_on_shift
    /\ \A i \in 1..Len(log) :
          log[i].action_type = "AUTO_ASSIGN" =>
             LET w == log[i].new_clerk_id
             IN /\ users[w].role = "clerk" /\ users[w].is_active
                /\ jobs[log[i].job_id].appointment_date = Today => users[w].is_on_shift
\* A create for today has just assigned the farther clerk, while the nearer
\* clerk is inactive or off shift and the admin stands at the property.
C18_Witness ==
    /\ last.op = "create" /\ last.code = 201
    /\ jobs[last.job].appointment_date = Today
    /\ jobs[last.job].assigned_clerk_id = 3
    /\ users[3].current_lat = 515540
    /\ users[2].current_lat = 515180
    /\ ~(users[2].is_active /\ users[2].is_on_shift)

\* C19: when the candidate pool is not empty, every clerk auto_assign_job
\* may return is a member of the pool whose total score is greater than or
\* equal to that of every other member; when the pool is empty the result
\* is none.
C19_SelectionPicksMaximum ==
    \A d \in {Today, Tomorrow} :
        LET job == NewJob(1, d)
            results == AutoAssignResults(users, availability, jobs, job)
        IN IF CandidatePool(users, availability, job) = {}
           THEN results = {NULL}
           ELSE \A w \in results : w # NULL /\ IsTopScorer(jobs, job, w)
\* A create has just assigned the new job to the clerk whose total score
\* was strictly higher than the other candidate's.
C19_Witness ==
    /\ last.op = "create" /\ last.code = 201
    /\ LET j == last.job
           before == SubSeq(jobs, 1, j - 1)
           job == NewJob(1, jobs[j].appointment_date)
           w == jobs[j].assigned_clerk_id
       IN /\ j = Len(jobs)
          /\ w # NULL
          /\ \E c \in CandidatePool(users, availability, job) \ {w} :
                \A prev \in PreviousJobChoices(before, job) :
                   TotalScore(before, job, w, prev) > TotalScore(before, job, c, prev)

\* C20: over the same stored data auto_assign_job returns one and the same
\* clerk on every invocation, also when candidates tie for the highest
\* total score.
C20_DeterministicTieBreak ==
    \A d \in {Today, Tomorrow} :
        Cardinality(AutoAssignResults(users, availability, jobs, NewJob(1, d))) = 1

\* Ten kilometres, in centimetres.
TenKm == 10 * 1000 * 100
\* The user has a position: both coordinates are stored (not null).
HasPosition(c) == users[c].current_lat # NULL /\ users[c].current_lng # NULL
\* The distance from property 1 to the position of user c.
DistanceTo(c) ==
    calculate_distance(Latitude(1), Longitude(1), users[c].current_lat, users[c].current_lng)

\* C21 (P3): of two candidates of one pool with the same continuity bonus
\* and the same number of active jobs, both with a position within 10 km of
\* the property, the strictly closer one has the strictly higher total score.
C21_CloserScoresHigher ==
    \A d \in {Today, Tomorrow} :
        LET job == NewJob(1, d)
            pool == CandidatePool(users, availability, job)
        IN \A a \in pool, b \in pool :
             (/\ HasPosition(a) /\ HasPosition(b)
              /\ DistanceTo(a) < DistanceTo(b) /\ DistanceTo(b) <= TenKm
              /\ CurrentJobs(jobs, a) = CurrentJobs(jobs, b))
             => \A prev \in PreviousJobChoices(jobs, job) :
                   ContinuityScore(jobs, a, prev) = ContinuityScore(jobs, b, prev)
                   => TotalScore(jobs, job, a, prev) > TotalScore(jobs, job, b, prev)

\* The points of the stored data: the property and every user position.
StoredPoints ==
    {<<Latitude(p), Longitude(p)>> :
        p \in {q \in PropertyIds : Latitude(q) # NULL /\ Longitude(q) # NULL}}
    \cup {<<users[c].current_lat, users[c].current_lng>> :
             c \in {u \in DOMAIN users : HasPosition(u)}}

\* C26 (P1): the distance from a point to another equals the distance from
\* the other to the first, for every pair of stored points.
C26_DistanceSymmetric ==
    \A a \in StoredPoints, b \in StoredPoints :
        calculate_distance(a[1], a[2], b[1], b[2]) = calculate_distance(b[1], b[2], a[1], a[2])
\* Two clerks stand at different latitudes and longitudes, 17.8 km apart, and
\* a job for tomorrow has been assigned to one of them by distance.
C26_Witness ==
    /\ last.op = "create" /\ last.code = 201
    /\ Len(jobs) = 1 /\ jobs[1].status = "assigned"
    /\ <<514000, -2000>> \in StoredPoints /\ <<515000, 0>> \in StoredPoints
    /\ calculate_distance(514000, -2000, 515000, 0) > TenKm

\* C27: for a job of today an active clerk on shift is in the candidate pool
\* exactly when both coordinates are stored, a stored 0 included.
C27_SameDayPoolIffPosition ==
    \A c \in DOMAIN users :
        (users[c].role = "clerk" /\ users[c].is_active /\ users[c].is_on_shift)
        => (c \in CandidatePool(users, availability, NewJob(1, Today)) <=> HasPosition(c))

\* C30: for a clerk with both coordinates stored the distance part of the
\* score is max(0, 100 - 10 * km): between 0 and 100, 100 at distance 0, and 0
\* from 10 km on.
C30_DistanceScoreBounds ==
    \A d \in {Today, Tomorrow}, c \in DOMAIN users :
        (users[c].role = "clerk" /\ HasPosition(c))
        => LET ds == DistanceScore(NewJob(1, d), users[c], DateRows(availability, c, d))
           IN /\ ds = Max(0, 100 * ScoreScale - DistanceTo(c))
              /\ 0 <= ds /\ ds <= 100 * ScoreScale
              /\ (DistanceTo(c) = 0 => ds = 100 * ScoreScale)
              /\ (DistanceTo(c) >= TenKm => ds = 0)

\* C24: a call of automatic assignment changes no job, user, availability
\* record or log entry, and a second call for the same date right after a
\* first returns what the first returned.
C24_AutoAssignPure ==
    [][last'.op = "auto_assign"
       => /\ UNCHANGED <<users, availability, jobs, log>>
          /\ (last.op = "auto_assign" /\ last.date = last'.date)
             => last'.result = last.result]_vars

\* The number of jobs of clerk c in one of the three active statuses.
ActiveJobCount(c) ==
    Cardinality({i \in DOMAIN jobs :
                   /\ jobs[i].assigned_clerk_id = c
                   /\ jobs[i].status \in {"assigned", "on_route", "in_progress"}})

\* C22 (P4): the workload part of a clerk's score is max(0, 20 - n) for n the
\* number of the clerk's jobs that are assigned, on route or in progress: 20
\* for n = 0, 0 for n >= 20, never negative; jobs in other statuses do not count.
C22_WorkloadFloor ==
    \A c \in {u \in DOMAIN users : users[u].role = "clerk"} :
        LET n == ActiveJobCount(c)
            w == WorkloadScore(jobs, c)
        IN /\ w = Max(0, 20 - n) * ScoreScale
           /\ w >= 0
           /\ (n = 0 => w = 20 * ScoreScale)
           /\ (n >= 20 => w = 0)
\* Clerk 2 holds more than 20 active jobs and one cancelled job, and a call
\* of automatic assignment has chosen clerk 3.
C22_Witness ==
    /\ ActiveJobCount(2) > 20
    /\ \E i \in DOMAIN jobs : jobs[i].assigned_clerk_id = 2 /\ jobs[i].status = "cancelled"
    /\ last.op = "auto_assign" /\ last.result = 3

\* C23: a check-in with property and check-in coordinates both present (a
\* coordinate equal to 0 included) sets the warning flag to whether the
\* distance exceeds 0.1 km; with either missing the flag is false afterwards.
C23_GeofenceFlag ==
    [][(last'.op = "check_in" /\ last'.code = 200)
       => LET job == jobs'[last'.job]
              p == job.property_id
              present == /\ Latitude(p) # NULL /\ Longitude(p) # NULL
                         /\ job.check_in_lat # NULL /\ job.check_in_lng # NULL
          IN job.location_warning_flag
             = IF present
               THEN calculate_distance(Latitude(p), Longitude(p),
                                       job.check_in_lat, job.check_in_lng) > 100 * 100
               ELSE FALSE]_vars

\* C25: creating a job with manual assignment and a clerk id that names no
\* active user with role clerk fails with an error and leaves the jobs and
\* the assignment log as they were.
C25_InvalidClerkPersistsNothing ==
    [][\A c \in ManualClerkIds :
         (/\ ~(c \in DOMAIN users /\ users[c].role = "clerk" /\ users[c].is_active)
          /\ CreateJob(1, 1, Tomorrow, "manual", c, NoReason))
         => (last'.code >= 400 /\ jobs' = jobs /\ log' = log)]_vars
\* A create naming the inactive clerk 2 has just been refused with 400, and
\* no job and no log entry exists.
C25_Witness ==
    /\ last.op = "create" /\ last.code = 400
    /\ ~users[2].is_active
    /\ jobs = <<>> /\ log = <<>>

\* C28: for a job on a date after today an active clerk is in the candidate
\* pool exactly when an availability record of the clerk for that date has
\* is_available true, whatever the on-shift flag and the position.
C28_FuturePoolIffRecord ==
    \A d \in {Tomorrow, DayAfter} :
        \A c \in {u \in DOMAIN users : users[u].role = "clerk" /\ users[u].is_active} :
            c \in CandidatePool(users, availability, NewJob(1, d))
            <=> \E r \in availability :
                   r.user_id = c /\ r.available_date = d /\ r.is_available
\* A job for tomorrow has been given to clerk 3, who is off shift and has no
\* position, while clerk 2, active, on shift and with a position, holds a
\* record for tomorrow that is marked unavailable and one for the day after.
C28_Witness ==
    /\ last.op = "create" /\ last.code = 201
    /\ jobs[last.job].appointment_date = Tomorrow
    /\ jobs[last.job].assigned_clerk_id = 3
    /\ users[2].is_active /\ users[2].is_on_shift /\ HasPosition(2)
    /\ AvailabilityRow(2, Tomorrow, FALSE) \in availability
    /\ AvailabilityRow(2, DayAfter, TRUE) \in availability
    /\ log[Len(log)].action_type = "AUTO_ASSIGN"

\* The completed jobs at property 1 that have a check-out time, and those of
\* them with the latest one.
TimedCompleted ==
    {i \in DOMAIN jobs : /\ jobs[i].property_id = 1 /\ jobs[i].status = "completed"
                         /\ jobs[i].check_out_at # NULL}
LatestCompleted ==
    {i \in TimedCompleted :
        \A k \in TimedCompleted : jobs[i].check_out_at >= jobs[k].check_out_at}

\* C29: a candidate receives the continuity bonus of 50 only as the clerk of
\* the completed job at the property with the latest check-out time, the
\* clerk of that job receives it when a candidate, and no two candidates of a
\* pool receive it. Stated for the states where some completed job at the
\* property has a check-out time.
C29_ContinuityBonus ==
    LET job == NewJob(1, Tomorrow)
        after == Append(jobs, job)
        pool == CandidatePool(users, availability, job)
        bonus(c, prev) == ContinuityScore(after, c, prev) = 50 * ScoreScale
    IN TimedCompleted # {} =>
         \A prev \in PreviousJobChoices(after, job) :
            /\ \A c \in pool :
                  bonus(c, prev) => \E i \in LatestCompleted : jobs[i].assigned_clerk_id = c
            /\ \A i \in LatestCompleted :
                  (LatestCompleted = {i} /\ jobs[i].assigned_clerk_id \in pool)
                  => bonus(jobs[i].assigned_clerk_id, prev)
            /\ Cardinality({c \in pool : bonus(c, prev)}) <= 1

\* C31: for a job of a future date, a candidate without a position receives
\* 30 exactly when the first four characters of the postcode on its
\* availability record for that date equal those of the property's postcode,
\* and 0 otherwise, whether or not the property has coordinates.
C31_PostcodeFallback ==
    \A p \in PropertyIds :
        LET job == NewJob(p, Tomorrow)
        IN \A c \in CandidatePool(users, availability, job) :
             ~HasPosition(c)
             => LET rows == DateRows(availability, c, Tomorrow)
                    matches == \E r \in rows :
                                  Prefix4(r.postcode) = Prefix4(Postcode(p))
                IN DistanceScore(job, users[c], rows)
                   = IF matches THEN 30 * ScoreScale ELSE 0

C33_OneRecordPerClerkAndDate ==
    \A r1 \in availability, r2 \in availability :
        (r1.user_id = r2.user_id /\ r1.available_date = r2.available_date) => r1 = r2
\* A create or an update that would have given clerk 2 a second record for
\* a date has just failed, and clerk 2 holds a record for today and one for
\* tomorrow.
C33_Witness ==
    /\ last.op \in {"availability_create", "availability_update"} /\ last.code = 500
    /\ \E r \in availability : r.user_id = 2 /\ r.available_date = Today
    /\ \E r \in availability : r.user_id = 2 /\ r.available_date = Tomorrow

\* The positions in the log of the entries of job j.
EntriesOf(j) == {i \in 1..Len(log) : log[i].job_id = j}
LastEntryOf(j) == log[CHOOSE i \in EntriesOf(j) : \A k \in EntriesOf(j) : k <= i]

\* C34: with requests executed one at a time, a job without log entries has
\* no assigned clerk, and the new clerk of a job's most recent log entry is
\* the clerk the job has.
C34_LogAgreesWithJob ==
    \A j \in JobIds(jobs) :
        IF EntriesOf(j) = {}
        THEN jobs[j].assigned_clerk_id = NULL
        ELSE LastEntryOf(j).new_clerk_id = jobs[j].assigned_clerk_id
\* Job 1 has been assigned, rejected and reassigned, then completed: its
\* log has three entries or more and the last names the clerk it has.
C34_Witness ==
    /\ Len(jobs) >= 1
    /\ jobs[1].status = "completed"
    /\ jobs[1].assigned_clerk_id # NULL
    /\ Cardinality(EntriesOf(1)) >= 3
    /\ LastEntryOf(1).action_type = "AUTO_ASSIGN"
    /\ LastEntryOf(1).new_clerk_id = jobs[1].assigned_clerk_id

\* C35: in every log, an AUTO_ASSIGN entry has no previous clerk, a new
\* clerk and no triggering user; a REJECTION entry has a previous clerk, no
\* new clerk and the previous clerk as triggering user; and no entry has
\* neither a previous nor a new clerk.
C35_LogEntryShape ==
    \A i \in 1..Len(log) :
        LET e == log[i]
        IN /\ e.action_type = "AUTO_ASSIGN"
              => /\ e.previous_clerk_id = NULL
                 /\ e.new_clerk_id # NULL
                 /\ e.triggered_by_user_id = NULL
           /\ e.action_type = "REJECTION"
              => /\ e.previous_clerk_id # NULL
                 /\ e.new_clerk_id = NULL
                 /\ e.triggered_by_user_id = e.previous_clerk_id
           /\ ~(e.previous_clerk_id = NULL /\ e.new_clerk_id = NULL)

\* The fields of a job that each progress operation writes.
OwnFields(op) ==
    IF op = "start" THEN {"status", "on_route_at"}
    ELSE IF op = "check_in"
    THEN {"status", "check_in_at", "check_in_lat", "check_in_lng", "location_warning_flag"}
    ELSE {"status", "check_out_at", "check_out_lat", "check_out_lng", "handover_data"}

\* C36: start, check-in and complete leave every job's assigned clerk and
\* the assignment log as they were; on the job they act on they change only
\* the status and the step's own timestamp, coordinates, warning flag and
\* handover data, and they change no other job.
C36_ProgressFrame ==
    [][last'.op \in {"start", "check_in", "complete"}
       => /\ log' = log
          /\ users' = users /\ availability' = availability
          /\ Len(jobs') = Len(jobs)
          /\ \A j \in JobIds(jobs) :
                /\ jobs'[j].assigned_clerk_id = jobs[j].assigned_clerk_id
                /\ \A f \in DOMAIN jobs[j] :
                      jobs'[j][f] # jobs[j][f]
                      => (j = last'.job /\ last'.code = 200 /\ f \in OwnFields(last'.op))]_vars
\* Job 1, assigned with a log entry, has just been completed and still has
\* its clerk.
C36_Witness ==
    /\ last.op = "complete" /\ last.code = 200
    /\ jobs[1].status = "completed" /\ jobs[1].check_out_at = now
    /\ jobs[1].assigned_clerk_id # NULL
    /\ Len(log) >= 1 /\ log[Len(log)].new_clerk_id = jobs[1].assigned_clerk_id

\* C37: the generic update writes a supplied status and a supplied clerk id
\* (null or the id of any user) onto the job as given, whatever the current
\* status of the job and the role of the user named, and appends no log
\* entry: a change of clerk made through it leaves the log as it was.
C37_UpdateWritesUnlogged ==
    [][\A j \in JobIds(jobs) \cap {1}, data \in UpdateBodies :
         (/\ UpdateJob(3, j, data)
          /\ Supplied(data, "assigned_clerk_id", NULL) \in DOMAIN users \cup {NULL})
         => /\ last'.code = 200
            /\ log' = log
            /\ jobs'[j].status = Supplied(data, "status", jobs[j].status)
            /\ jobs'[j].assigned_clerk_id
                 = Supplied(data, "assigned_clerk_id", jobs[j].assigned_clerk_id)]_vars
\* An update has just given the completed job 1 to the admin, while the
\* last log entry of the job still names the clerk logged before.
C37_Witness ==
    /\ last.op = "update" /\ last.code = 200 /\ last.job = 1
    /\ jobs[1].status = "completed"
    /\ jobs[1].assigned_clerk_id = 1
    /\ EntriesOf(1) # {}
    /\ LastEntryOf(1).new_clerk_id \in {2, 3}

====
